---- MODULE Spec2Model ----
(***************************************************************************)
(* Model of the ingesil crawlers: the PostgreSQL repository operations     *)
(* (daily_journals = issues, notices), the FSM engine, the BOE paginated   *)
(* search crawl and the DOGC calendar walk + pending-queue drain.          *)
(*                                                                         *)
(* A row id is the row's position in its table: rows are never deleted and *)
(* ids are handed out in insertion order, so ORDER BY id is table order.   *)
(* An absent id (Python None) is 0; an absent record is the empty sequence *)
(* and a present one a one-element sequence.                               *)
(***************************************************************************)
EXTENDS Integers, Sequences, FiniteSets, TLC

VARIABLES
    daily_journals,             \* table daily_journals: seq of [source_id, issue_date, url, description]
    notices,                    \* table notices: seq of [daily_journal_id, title, url, content]
    lastOp,                     \* history: the most recent repository call and what it found
    wpc, wcall, wexisting,      \* per concurrent session: position in upsert_notice, its arguments, existing_id
    status, run,                \* process: "idle" | "running" | "done" | "failed" | "killed"; runs started
    state, steps,               \* FSMRunner.run locals
    from_date, to_date,         \* crawl window (BOE from_date/to_date, DOGC start_issue_date/end_issue_date)
    resume_state,               \* DOGC context.resume_state ("None" when empty)
    attempted_daily_journal_ids,\* DOGC context.attempted_daily_journal_ids
    current_daily_journal,      \* DOGC context.current_daily_journal
    pending_notice_candidates,  \* DOGC context.pending_notice_candidates
    current_notice_candidate,   \* DOGC context.current_notice_candidate
    visible_month,              \* DOGC browser: month index shown by the calendar control
    obstructions,               \* DOGC browser: number of times the cookie banner has shown up
    pending_results,            \* BOE context.pending_results
    current_result,             \* BOE context.current_result
    next_page_url,              \* BOE context.next_page_url (page number, 0 = None)
    page,                       \* BOE browser: result page currently loaded
    remote,                     \* remote site content (unchanged during a behaviour)
    prevRun,                    \* history: window and table sizes of the last completed run
    handlers,                   \* FSMRunner.handlers: the states that have a handler
    on_transition,              \* FSMRunner.on_transition is not None
    work,                       \* context of the sample handlers: steps left before DONE
    calls,                      \* history: handler and hook invocations of FSMRunner.run
    error,                      \* the exception the run was left by, "" when none
    picked,                     \* history: ids the DOGC drain picked in this run, in order
    driver,                     \* main: the browser session: "none", "open" or "quit"
    error_captures,             \* main: results of the capture attempts of the except branch
    exit_code,                  \* main: the value returned to the shell, -1 while it runs
    extracted,                  \* history: the items the last refill put in the pending queue
    handed,                     \* history: the items popped for the detail state since then
    walked,                     \* history: the months PROCESS_MONTH processed in this run
    written                     \* history: the issue dates this run passed to upsert_daily_journal

dbVars   == <<daily_journals, notices>>
connVars == <<wpc, wcall, wexisting>>
procVars == <<status, run, state, steps, from_date, to_date>>
dogcVars == <<resume_state, attempted_daily_journal_ids, current_daily_journal,
              pending_notice_candidates, current_notice_candidate, visible_month, obstructions>>
boeVars  == <<pending_results, current_result, next_page_url, page>>
engVars  == <<handlers, on_transition, work, calls, error>>
mainVars == <<driver, error_captures, exit_code>>
queueVars == <<extracted, handed>>
vars == <<daily_journals, notices, lastOp, wpc, wcall, wexisting, status, run, state, steps,
          from_date, to_date, resume_state, attempted_daily_journal_ids, current_daily_journal,
          pending_notice_candidates, current_notice_candidate, visible_month, obstructions,
          pending_results, current_result, next_page_url, page, remote, prevRun, engVars, picked, mainVars, queueVars, walked, written>>

(***************************************************************************)
(* Bounds and input sets                                                   *)
(***************************************************************************)
MaxDate == 3
MaxNoticeRows == 2
MaxIssueRows == 2

Dates == 1..MaxDate
DogcSource == 1
BoeSource == 2
SourceIds == {DogcSource, BoeSource}
Descriptions == {"d1", "d2"}
IssueUrls == {"", "x"}
Titles == {"a", "b"}
NoticeUrls == {"", "u", "v"}
Contents == {"c1", "c2"}

MinOf(S) == CHOOSE x \in S : \A y \in S : x <= y

(***************************************************************************)
(* Repository: issues                                                      *)
(***************************************************************************)
\* INSERT without the ON CONFLICT clause
insert_daily_journal(rows, source_id, issue_date, url, description) ==
    Append(rows, [source_id |-> source_id, issue_date |-> issue_date,
                  url |-> url, description |-> description])

\* the table keeps only the row written last
keep_latest_daily_journal(rows, source_id, issue_date, url, description) ==
    <<[source_id |-> source_id, issue_date |-> issue_date,
       url |-> url, description |-> description]>>

\* INSERT ... ON CONFLICT (source_id, issue_date) DO UPDATE SET url, description
upsert_daily_journal(rows, source_id, issue_date, url, description) ==
    LET hit == {i \in DOMAIN rows : rows[i].source_id = source_id
                                    /\ rows[i].issue_date = issue_date}
    IN IF hit = {}
       THEN Append(rows, [source_id |-> source_id, issue_date |-> issue_date,
                          url |-> url, description |-> description])
       ELSE [i \in DOMAIN rows |->
                IF i \in hit
                THEN [rows[i] EXCEPT !.url = url, !.description = description]
                ELSE rows[i]]

\* f"https://www.boe.es/boe/dias/{issue_date:%Y/%m/%d}/"
boe_daily_journal_url(issue_date) == "boe/dias/" \o ToString(issue_date) \o "/"

\* RETURNING id
returning_id(rows, source_id, issue_date) ==
    MinOf({i \in DOMAIN rows : rows[i].source_id = source_id
                               /\ rows[i].issue_date = issue_date})

(***************************************************************************)
(* Repository: notices                                                     *)
(***************************************************************************)
\* SELECT id FROM notices WHERE daily_journal_id = .. AND url = .. ORDER BY id LIMIT 1
select_notice_by_url(rows, daily_journal_id, url) ==
    LET m == {i \in DOMAIN rows : rows[i].daily_journal_id = daily_journal_id
                                  /\ rows[i].url = url}
    IN IF m = {} THEN 0 ELSE MinOf(m)

\* SELECT id FROM notices WHERE daily_journal_id = .. AND title = .. ORDER BY id LIMIT 1
select_notice_by_title(rows, daily_journal_id, title) ==
    LET m == {i \in DOMAIN rows : rows[i].daily_journal_id = daily_journal_id
                                  /\ rows[i].title = title}
    IN IF m = {} THEN 0 ELSE MinOf(m)

\* the title lookup runs only when the url is empty
lookup_title_only_without_url(rows, daily_journal_id, title, url, by_url) ==
    IF by_url # 0 THEN by_url
    ELSE IF url # "" THEN 0
    ELSE select_notice_by_title(rows, daily_journal_id, title)

\* second lookup of upsert_notice: "if existing_id is None:" title lookup
lookup_title_fallback(rows, daily_journal_id, title, url, by_url) ==
    IF by_url # 0 THEN by_url
    ELSE select_notice_by_title(rows, daily_journal_id, title)

\* first lookup of upsert_notice: "if url:" url lookup
lookup_url_first(rows, daily_journal_id, url) ==
    IF url # "" THEN select_notice_by_url(rows, daily_journal_id, url) ELSE 0

notice_row(daily_journal_id, title, url, content) ==
    [daily_journal_id |-> daily_journal_id, title |-> title, url |-> url, content |-> content]

\* always INSERT
write_notice_insert_only(rows, existing_id, row) == Append(rows, row)

\* "if existing_id is None:" INSERT "else:" UPDATE ... WHERE id = existing_id
write_notice(rows, existing_id, row) ==
    IF existing_id = 0 THEN Append(rows, row)
    ELSE IF existing_id \in DOMAIN rows THEN [rows EXCEPT ![existing_id] = row]
    ELSE rows

existing_notice_id(rows, daily_journal_id, title, url) ==
    lookup_title_fallback(rows, daily_journal_id, title, url,
                          lookup_url_first(rows, daily_journal_id, url))

\* upsert_notice run by one session with no other session in between
upsert_notice(rows, daily_journal_id, title, url, content) ==
    write_notice(rows, existing_notice_id(rows, daily_journal_id, title, url),
                 notice_row(daily_journal_id, title, url, content))

(***************************************************************************)
(* Repository: pending query                                               *)
(***************************************************************************)
\* daily_journals dj LEFT JOIN notices n ON n.daily_journal_id = dj.id WHERE dj.source_id = ..
\* a pair <<dj.id, n.id>>, n.id = 0 for the NULL-extended row
left_join_notices(journals, nrows, source_id) ==
    LET djs == {i \in DOMAIN journals : journals[i].source_id = source_id}
    IN {p \in djs \X DOMAIN nrows : nrows[p[2]].daily_journal_id = p[1]}
       \cup {<<i, 0>> : i \in {i \in djs :
                                 \A k \in DOMAIN nrows : nrows[k].daily_journal_id # i}}

\* the join without the WHERE dj.source_id filter
left_join_all_sources(journals, nrows, source_id) ==
    LET djs == DOMAIN journals
    IN {p \in djs \X DOMAIN nrows : nrows[p[2]].daily_journal_id = p[1]}
       \cup {<<i, 0>> : i \in {i \in djs :
                                 \A k \in DOMAIN nrows : nrows[k].daily_journal_id # i}}

\* GROUP BY dj.id HAVING COUNT(n.id) <= 1
having_at_most_one_notice(joined) ==
    {i \in {p[1] : p \in joined} :
        Cardinality({p \in joined : p[1] = i /\ p[2] # 0}) <= 1}

\* GROUP BY dj.id HAVING COUNT(n.id) = 0
having_no_notice(joined) ==
    {i \in {p[1] : p \in joined} :
        Cardinality({p \in joined : p[1] = i /\ p[2] # 0}) = 0}

\* ids selected by the query of fetch_pending_daily_journal
pending_ids(journals, nrows, source_id) ==
    having_no_notice(left_join_notices(journals, nrows, source_id))

\* ORDER BY dj.issue_date ASC, dj.id ASC: does id i come before id j
pending_before(journals, i, j) ==
    \/ journals[i].issue_date < journals[j].issue_date
    \/ journals[i].issue_date = journals[j].issue_date /\ i <= j

\* the query without its "dj.id <> ALL(attempted_ids)" condition
fetch_pending_ignoring_attempted(journals, nrows, source_id, attempted) ==
    LET cand == {i \in pending_ids(journals, nrows, source_id) : journals[i].url # ""}
    IN IF cand = {} THEN <<>>
       ELSE LET i == CHOOSE c \in cand : \A d \in cand : pending_before(journals, c, d)
            IN <<[id |-> i, issue_date |-> journals[i].issue_date,
                  url |-> journals[i].url, description |-> journals[i].description]>>

\* the first row by id instead of by (issue_date, id)
fetch_pending_by_id(journals, nrows, source_id, attempted) ==
    LET cand == {i \in pending_ids(journals, nrows, source_id) :
                    i \notin attempted /\ journals[i].url # ""}
    IN IF cand = {} THEN <<>>
       ELSE LET i == CHOOSE c \in cand : \A d \in cand : c <= d
            IN <<[id |-> i, issue_date |-> journals[i].issue_date,
                  url |-> journals[i].url, description |-> journals[i].description]>>

\* fetch_pending_daily_journal: first row in order that is not attempted and has a url
fetch_pending_daily_journal(journals, nrows, source_id, attempted) ==
    LET cand == {i \in pending_ids(journals, nrows, source_id) :
                    i \notin attempted /\ journals[i].url # ""}
    IN IF cand = {} THEN <<>>
       ELSE LET i == CHOOSE c \in cand : \A d \in cand : pending_before(journals, c, d)
            IN <<[id |-> i, issue_date |-> journals[i].issue_date,
                  url |-> journals[i].url, description |-> journals[i].description]>>

(***************************************************************************)
(* History of repository calls                                             *)
(***************************************************************************)
NoCall == [op |-> "none", source_id |-> 0, issue_date |-> 0, daily_journal_id |-> 0,
           title |-> "", url |-> "", text |-> "",
           pre_notices |-> <<>>, repeat |-> "no"]

\* is this call a repeat of the call right before it (same key), and with the same payload
RepeatOfIssue(source_id, issue_date, description) ==
    IF lastOp.op = "issue" /\ lastOp.source_id = source_id /\ lastOp.issue_date = issue_date
    THEN (IF lastOp.text = description THEN "same" ELSE "diff")
    ELSE "no"

RepeatOfNotice(daily_journal_id, url, content) ==
    IF lastOp.op = "notice" /\ lastOp.daily_journal_id = daily_journal_id /\ lastOp.url = url
    THEN (IF lastOp.text = content THEN "same" ELSE "diff")
    ELSE "no"

IssueCall(source_id, issue_date, url, description) ==
    [NoCall EXCEPT !.op = "issue", !.source_id = source_id, !.issue_date = issue_date,
                   !.url = url, !.text = description,
                   !.repeat = RepeatOfIssue(source_id, issue_date, description)]

NoticeCall(daily_journal_id, title, url, content) ==
    [NoCall EXCEPT !.op = "notice", !.daily_journal_id = daily_journal_id, !.title = title,
                   !.url = url, !.text = content, !.pre_notices = notices,
                   !.repeat = RepeatOfNotice(daily_journal_id, url, content)]

(***************************************************************************)
(* Initial values of the parts a specification does not use                *)
(***************************************************************************)
NoRemote == [dogc_issues |-> {}, boe_items |-> <<>>]
NoPrevRun == [completed |-> FALSE, from_date |-> 0, to_date |-> 0, journals |-> 0, notices |-> 0]

ConnIdle ==
    /\ wpc = [w \in {1, 2} |-> "idle"]
    /\ wcall = [w \in {1, 2} |-> NoCall]
    /\ wexisting = [w \in {1, 2} |-> 0]

EngIdle ==
    /\ handlers = {} /\ on_transition = FALSE /\ work = 0 /\ calls = <<>> /\ error = ""
    /\ picked = <<>> /\ driver = "none" /\ error_captures = <<>> /\ exit_code = -1
    /\ extracted = <<>> /\ handed = <<>> /\ walked = <<>> /\ written = {}

ProcIdle ==
    /\ status = "idle" /\ run = 0 /\ state = "HOME" /\ steps = 0
    /\ from_date = 0 /\ to_date = 0

DogcIdle ==
    /\ resume_state = "None" /\ attempted_daily_journal_ids = {}
    /\ current_daily_journal = <<>> /\ pending_notice_candidates = <<>>
    /\ current_notice_candidate = <<>> /\ visible_month = 0 /\ obstructions = 0

BoeIdle ==
    /\ pending_results = <<>> /\ current_result = <<>> /\ next_page_url = 0 /\ page = 0

(***************************************************************************)
(* Repository calls of a single session, one call at a time                *)
(***************************************************************************)
\* crawler_boe.upsert_daily_journal: the url is derived from the date
RepoUpsertIssueBoe(source_id, issue_date, description) ==
    LET url == boe_daily_journal_url(issue_date)
        rows == upsert_daily_journal(daily_journals, source_id, issue_date, url, description)
    IN /\ Len(rows) <= MaxIssueRows
       /\ daily_journals' = rows
       /\ lastOp' = IssueCall(source_id, issue_date, url, description)
       /\ UNCHANGED <<notices, connVars, procVars, dogcVars, boeVars, remote, prevRun, engVars, picked, mainVars, queueVars, walked, written>>

\* crawler_dogc.upsert_daily_journal: the url is an argument
RepoUpsertIssueDogc(source_id, issue_date, url, description) ==
    LET rows == upsert_daily_journal(daily_journals, source_id, issue_date, url, description)
    IN /\ Len(rows) <= MaxIssueRows
       /\ daily_journals' = rows
       /\ lastOp' = IssueCall(source_id, issue_date, url, description)
       /\ UNCHANGED <<notices, connVars, procVars, dogcVars, boeVars, remote, prevRun, engVars, picked, mainVars, queueVars, walked, written>>

\* upsert_notice (same statements in both crawlers)
RepoUpsertNotice(daily_journal_id, title, url, content) ==
    LET rows == upsert_notice(notices, daily_journal_id, title, url, content)
    IN /\ Len(rows) <= MaxNoticeRows
       /\ notices' = rows
       /\ lastOp' = NoticeCall(daily_journal_id, title, url, content)
       /\ UNCHANGED <<daily_journals, connVars, procVars, dogcVars, boeVars, remote, prevRun, engVars, picked, mainVars, queueVars, walked, written>>

InitEmptyDb ==
    /\ daily_journals = <<>> /\ notices = <<>> /\ lastOp = NoCall
    /\ ConnIdle /\ ProcIdle /\ DogcIdle /\ BoeIdle /\ EngIdle
    /\ remote = NoRemote /\ prevRun = NoPrevRun

\* any sequence of issue upserts
NextIssues ==
    \/ \E d \in Dates, x \in Descriptions : RepoUpsertIssueBoe(BoeSource, d, x)
    \/ \E d \in Dates, u \in IssueUrls, x \in Descriptions :
          RepoUpsertIssueDogc(DogcSource, d, u, x)

SpecIssues == InitEmptyDb /\ [][NextIssues]_vars

\* two issues of two sources are persisted; any sequence of notice upserts follows
InitNotices ==
    /\ daily_journals = upsert_daily_journal(
                            upsert_daily_journal(<<>>, DogcSource, 1, "x", "d1"),
                            BoeSource, 1, boe_daily_journal_url(1), "d1")
    /\ notices = <<>> /\ lastOp = NoCall
    /\ ConnIdle /\ ProcIdle /\ DogcIdle /\ BoeIdle /\ EngIdle
    /\ remote = NoRemote /\ prevRun = NoPrevRun

NextNotices ==
    \E j \in DOMAIN daily_journals, t \in Titles, u \in NoticeUrls, c \in Contents :
        RepoUpsertNotice(j, t, u, c)

SpecNotices == InitNotices /\ [][NextNotices]_vars

(***************************************************************************)
(* C3..C6: the upsert contract                                             *)
(***************************************************************************)
IssueRowsOf(rows, source_id, issue_date) ==
    {i \in DOMAIN rows : rows[i].source_id = source_id /\ rows[i].issue_date = issue_date}

\* C3: after any sequence of upsertIssue calls there is at most one issue row per
\* (sourceId, issueDate), and the row of the key of the latest call is the only one
\* of that key and holds that call's url and description.
C3_OneIssueRowPerKey ==
    /\ \A i, j \in DOMAIN daily_journals :
          (daily_journals[i].source_id = daily_journals[j].source_id
           /\ daily_journals[i].issue_date = daily_journals[j].issue_date) => i = j
    /\ lastOp.op = "issue" =>
          LET hit == IssueRowsOf(daily_journals, lastOp.source_id, lastOp.issue_date)
          IN /\ Cardinality(hit) = 1
             /\ \A i \in hit : /\ daily_journals[i].url = lastOp.url
                               /\ daily_journals[i].description = lastOp.text

\* the same key was upserted twice in a row with different descriptions
C3_Witness ==
    /\ lastOp.op = "issue" /\ lastOp.repeat = "diff"
    /\ Len(daily_journals) >= 2

\* rows i of the table before the call that a notice call's key (issue, url) names
PreRowsByUrl == {i \in DOMAIN lastOp.pre_notices :
                    /\ lastOp.pre_notices[i].daily_journal_id = lastOp.daily_journal_id
                    /\ lastOp.pre_notices[i].url = lastOp.url}

PreRowsByTitle == {i \in DOMAIN lastOp.pre_notices :
                    /\ lastOp.pre_notices[i].daily_journal_id = lastOp.daily_journal_id
                    /\ lastOp.pre_notices[i].title = lastOp.title}

LastNoticeRow == notice_row(lastOp.daily_journal_id, lastOp.title, lastOp.url, lastOp.text)

\* the last call rewrote row i and nothing else
UpdatedInPlace(i) ==
    /\ Len(notices) = Len(lastOp.pre_notices)
    /\ i \in DOMAIN notices
    /\ notices[i] = LastNoticeRow
    /\ \A k \in DOMAIN notices : k # i => notices[k] = lastOp.pre_notices[k]

\* the last call appended one row and changed nothing else
InsertedNew ==
    /\ Len(notices) = Len(lastOp.pre_notices) + 1
    /\ notices[Len(notices)] = LastNoticeRow
    /\ \A k \in DOMAIN lastOp.pre_notices : notices[k] = lastOp.pre_notices[k]

\* C4: upsertNotice called twice in a row with the same (issueId, url), url non-empty,
\* and different content: the second call leaves the number of rows unchanged and the
\* row of that key holds the second call's content.
C4_SecondCallUpdatesInPlace ==
    (lastOp.op = "notice" /\ lastOp.url # "" /\ lastOp.repeat = "diff") =>
        /\ PreRowsByUrl # {}
        /\ UpdatedInPlace(MinOf(PreRowsByUrl))
        /\ \A i \in DOMAIN notices :
              (notices[i].daily_journal_id = lastOp.daily_journal_id
               /\ notices[i].url = lastOp.url) => notices[i].content = lastOp.text

C4_Witness ==
    /\ lastOp.op = "notice" /\ lastOp.url # "" /\ lastOp.repeat = "diff"
    /\ Len(notices) = MaxNoticeRows

\* C5 as stated: the key is (issueId, url) when url is non-empty and (issueId, title)
\* otherwise; a match is updated in place and no match of that key inserts a row.
C5_Original ==
    lastOp.op = "notice" =>
        LET m == IF lastOp.url # "" THEN PreRowsByUrl ELSE PreRowsByTitle
        IN IF m = {} THEN InsertedNew ELSE UpdatedInPlace(MinOf(m))

\* C5 amended: upsertNotice resolves the row by (issueId, url) when url is non-empty
\* and some row has it; otherwise (url empty, or no row with that url) by
\* (issueId, title); it updates the lowest-id match in place and inserts a new row
\* only when neither lookup matches.
C5_UrlThenTitleFallback ==
    lastOp.op = "notice" =>
        IF lastOp.url # "" /\ PreRowsByUrl # {} THEN UpdatedInPlace(MinOf(PreRowsByUrl))
        ELSE IF PreRowsByTitle # {} THEN UpdatedInPlace(MinOf(PreRowsByTitle))
        ELSE InsertedNew

\* a call with a non-empty url that no row has, and a title that some row has
C5_Witness ==
    /\ lastOp.op = "notice" /\ lastOp.url # ""
    /\ PreRowsByUrl = {} /\ PreRowsByTitle # {}
    /\ Len(notices) = Len(lastOp.pre_notices)

\* C6 as stated: no two notice rows of an issue share a non-empty url, and no two
\* rows of an issue that are identified by title (empty url) share a title.
C6_NoticeKeysUnique ==
    \A i, j \in DOMAIN notices :
        (i # j /\ notices[i].daily_journal_id = notices[j].daily_journal_id) =>
            /\ ~(notices[i].url # "" /\ notices[i].url = notices[j].url)
            /\ ~(notices[i].url = "" /\ notices[j].url = ""
                 /\ notices[i].title = notices[j].title)

(***************************************************************************)
(* Two sessions (independent runs) on the same database.  Each statement   *)
(* sees the rows committed before it (READ COMMITTED); the INSERT/UPDATE of *)
(* upsert_notice is followed by its commit with no statement in between.    *)
(***************************************************************************)
Sessions == {1, 2}
SessIssueDates == {1}
SessDescriptions == {"d1", "d2"}
SessTitles == {"a", "b"}
SessUrls == {"", "u"}
SessContents == {"c1"}

InFlight == Cardinality({w \in Sessions : wpc[w] # "idle"})

\* upsert_daily_journal: one INSERT ... ON CONFLICT statement, then commit
SessUpsertIssue(w, source_id, issue_date, url, description) ==
    LET rows == upsert_daily_journal(daily_journals, source_id, issue_date, url, description)
    IN /\ wpc[w] = "idle"
       /\ Len(rows) <= MaxIssueRows
       /\ daily_journals' = rows
       /\ wcall' = [wcall EXCEPT ![w] =
                       [NoCall EXCEPT !.op = "issue", !.source_id = source_id,
                                      !.issue_date = issue_date, !.url = url,
                                      !.text = description]]
       /\ UNCHANGED <<notices, lastOp, wpc, wexisting, procVars, dogcVars, boeVars,
                      remote, prevRun, engVars, picked, mainVars, queueVars, walked, written>>

\* upsert_notice, "if url:" SELECT by url
SessLookupUrl(w, daily_journal_id, title, url, content) ==
    /\ wpc[w] = "idle"
    /\ Len(notices) + InFlight < MaxNoticeRows
    /\ wcall' = [wcall EXCEPT ![w] =
                    [NoCall EXCEPT !.op = "notice", !.daily_journal_id = daily_journal_id,
                                   !.title = title, !.url = url, !.text = content]]
    /\ wexisting' = [wexisting EXCEPT ![w] = lookup_url_first(notices, daily_journal_id, url)]
    /\ wpc' = [wpc EXCEPT ![w] = "url_looked_up"]
    /\ UNCHANGED <<dbVars, lastOp, procVars, dogcVars, boeVars, remote, prevRun, engVars, picked, mainVars, queueVars, walked, written>>

\* upsert_notice, "if existing_id is None:" SELECT by title
SessLookupTitle(w) ==
    /\ wpc[w] = "url_looked_up"
    /\ wexisting' = [wexisting EXCEPT ![w] =
                        lookup_title_fallback(notices, wcall[w].daily_journal_id,
                                              wcall[w].title, wcall[w].url, wexisting[w])]
    /\ wpc' = [wpc EXCEPT ![w] = "title_looked_up"]
    /\ UNCHANGED <<dbVars, lastOp, wcall, procVars, dogcVars, boeVars, remote, prevRun, engVars, picked, mainVars, queueVars, walked, written>>

\* upsert_notice, INSERT or UPDATE by id, then commit
SessWrite(w) ==
    /\ wpc[w] = "title_looked_up"
    /\ notices' = write_notice(notices, wexisting[w],
                               notice_row(wcall[w].daily_journal_id, wcall[w].title,
                                          wcall[w].url, wcall[w].text))
    /\ wpc' = [wpc EXCEPT ![w] = "idle"]
    /\ wexisting' = [wexisting EXCEPT ![w] = 0]
    /\ UNCHANGED <<daily_journals, lastOp, wcall, procVars, dogcVars, boeVars, remote, prevRun, engVars, picked, mainVars, queueVars, walked, written>>

NextSessions ==
    \/ \E w \in Sessions, d \in SessIssueDates, x \in SessDescriptions :
          SessUpsertIssue(w, BoeSource, d, boe_daily_journal_url(d), x)
    \/ \E w \in Sessions, j \in DOMAIN daily_journals, t \in SessTitles, u \in SessUrls,
          c \in SessContents : SessLookupUrl(w, j, t, u, c)
    \/ \E w \in Sessions : SessLookupTitle(w)
    \/ \E w \in Sessions : SessWrite(w)

SpecSessions == InitEmptyDb /\ [][NextSessions]_vars

\* C7: when independent runs upsert the same (sourceId, issueDate), in any order and
\* interleaved with their other statements, exactly one issue row exists for the key
\* of every upsert that was made.
C7_ConcurrentIssueUpsertOneRow ==
    \A w \in Sessions :
        wcall[w].op = "issue" =>
            Cardinality(IssueRowsOf(daily_journals, wcall[w].source_id,
                                    wcall[w].issue_date)) = 1

\* both sessions have upserted the same key, with different descriptions
C7_Witness ==
    /\ wcall[1].op = "issue" /\ wcall[2].op = "issue"
    /\ wcall[1].source_id = wcall[2].source_id
    /\ wcall[1].issue_date = wcall[2].issue_date
    /\ wcall[1].text # wcall[2].text
    /\ Len(daily_journals) = 1

\* C8 as stated: whatever the interleaving of the lookups and writes of two runs,
\* at most one notice row exists per (issueId, url) with url non-empty.
C8_ConcurrentNoticeUpsertOneRow ==
    \A i, j \in DOMAIN notices :
        (notices[i].daily_journal_id = notices[j].daily_journal_id
         /\ notices[i].url # "" /\ notices[i].url = notices[j].url) => i = j

(***************************************************************************)
(* Engine and process (FSMRunner.run, main)                                *)
(***************************************************************************)
MaxSteps == 14
MaxRuns == 2
MaxObstructions == 1
DaysPerMonth == 2

Today == MaxDate
SourceStartAt == 1

\* loop body of FSMRunner.run after the handler returned next_state; reaching the
\* terminal state ends the loop and main returns 0
EngineAdvance(next_state) ==
    /\ state' = next_state
    /\ steps' = steps + 1
    /\ status' = IF next_state = "DONE" THEN "done" ELSE status

EngineCanStep(current) ==
    /\ status = "running" /\ state = current /\ steps < MaxSteps

\* the budget error is raised one step early
EngineBudgetExceededEarly ==
    /\ status = "running" /\ state # "DONE" /\ steps >= MaxSteps - 1
    /\ status' = "failed"
    /\ error' = "max_steps"
    /\ UNCHANGED <<dbVars, lastOp, connVars, run, state, steps, from_date, to_date,
                   dogcVars, boeVars, remote, prevRun, handlers, on_transition, work, calls,
                   picked, mainVars, queueVars, walked, written>>

\* "if steps >= self.config.max_steps: raise RuntimeError"; main returns 1
EngineBudgetExceeded ==
    /\ status = "running" /\ state # "DONE" /\ steps >= MaxSteps
    /\ status' = "failed"
    /\ error' = "max_steps"
    /\ UNCHANGED <<dbVars, lastOp, connVars, run, state, steps, from_date, to_date,
                   dogcVars, boeVars, remote, prevRun, handlers, on_transition, work, calls,
                   picked, mainVars, queueVars, walked, written>>

\* the process is terminated between two engine steps, or a wait of the next
\* handler times out before the handler changed anything
ProcessTerminated ==
    /\ status = "running" /\ steps < MaxSteps
    /\ status' = "killed"
    /\ UNCHANGED <<dbVars, lastOp, connVars, run, state, steps, from_date, to_date,
                   dogcVars, boeVars, remote, prevRun, engVars, picked, mainVars, queueVars, walked, written>>

\* what the run that just ended leaves for comparison with the next one
RunSummary ==
    [completed |-> status = "done", from_date |-> from_date, to_date |-> to_date,
     journals |-> Len(daily_journals), notices |-> Len(notices)]

(***************************************************************************)
(* DOGC: calendar walk + pending-queue drain                               *)
(***************************************************************************)
\* the toy calendar: DaysPerMonth days a month, twelve months a year, day 1 is
\* the first day of month 1 of year 0
calendar_year(d) == ((d - 1) \div DaysPerMonth) \div 12
calendar_month(d) == (((d - 1) \div DaysPerMonth) % 12) + 1
month_index(year, month) == (year * 12) + month
DateMonthIndex(d) == month_index(calendar_year(d), calendar_month(d))
MonthIndexes == {DateMonthIndex(d) : d \in Dates}

\* rows of the summary page of the issue published on day d
NoticeA == [title |-> "a", href |-> "h1", final_url |-> "u", detail_title |-> "", content |-> "c1"]
NoticeB == [title |-> "b", href |-> "h2", final_url |-> "v", detail_title |-> "b2", content |-> "c2"]
DogcSummaryRows(d) ==
    CASE d % 3 = 1 -> <<NoticeA, NoticeB>>
      [] d % 3 = 2 -> <<>>
      [] OTHER     -> <<NoticeB, NoticeB>>

\* build_daily_issue_url of the cell of day d, and the description
dogc_issue_url(d) == "sumari/?numDOGC=" \o ToString(d)
dogc_issue_description(d) == "DOGC num. " \o ToString(d)

\* the cells are upserted regardless of the window
extract_all_cells_of_visible_month(published, month, start, end) ==
    {d \in published : DateMonthIndex(d) = month}

\* extract_clickable_issues_for_visible_month: cells of the visible month inside
\* the window, sorted by date
extract_clickable_issues_for_visible_month(published, month, start, end) ==
    {d \in published : DateMonthIndex(d) = month /\ ~(d < start \/ d > end)}

\* "for issue_date, issue_url, description in issues: upsert_daily_journal(...)",
\* in ascending date order
RECURSIVE upsert_issues_in_order(_, _, _)
upsert_issues_in_order(rows, source_id, dates) ==
    IF dates = {} THEN rows
    ELSE LET d == MinOf(dates)
         IN upsert_issues_in_order(
                upsert_daily_journal(rows, source_id, d, dogc_issue_url(d),
                                     dogc_issue_description(d)),
                source_id, dates \ {d})

\* extract_notice_candidates_from_daily_journal: page rows, first of each href
RECURSIVE dedupe_by_href(_, _)
dedupe_by_href(rows, seen_urls) ==
    IF rows = <<>> THEN <<>>
    ELSE IF Head(rows).href \in seen_urls THEN dedupe_by_href(Tail(rows), seen_urls)
    ELSE <<Head(rows)>> \o dedupe_by_href(Tail(rows), seen_urls \cup {Head(rows).href})

\* the summary page behind a stored issue url
extract_notice_candidates_from_daily_journal(published, url) ==
    LET ds == {d \in published : dogc_issue_url(d) = url}
    IN IF ds = {} THEN <<>> ELSE dedupe_by_href(DogcSummaryRows(MinOf(ds)), {})

\* "title = detail['title'] or candidate title"
notice_final_title(candidate) ==
    IF candidate.detail_title # "" THEN candidate.detail_title ELSE candidate.title

\* the attempted set survives from one process to the next
DogcCtxResetKeepingAttempted ==
    /\ resume_state' = "None" /\ UNCHANGED attempted_daily_journal_ids
    /\ current_daily_journal' = <<>> /\ pending_notice_candidates' = <<>>
    /\ current_notice_candidate' = <<>> /\ visible_month' = 0 /\ obstructions' = 0

\* DogcContext(...): every field but the connection and the source starts empty
DogcCtxReset ==
    /\ resume_state' = "None" /\ attempted_daily_journal_ids' = {}
    /\ current_daily_journal' = <<>> /\ pending_notice_candidates' = <<>>
    /\ current_notice_candidate' = <<>> /\ visible_month' = 0 /\ obstructions' = 0

\* main: a new process; start_issue_date from sources.start_at or --start-at
DogcStartRun(start) ==
    /\ status # "running" /\ run < MaxRuns
    /\ run' = run + 1
    /\ prevRun' = RunSummary
    /\ from_date' = start /\ to_date' = Today
    /\ IF start > Today
       THEN status' = "failed" /\ UNCHANGED <<state, steps>>
       ELSE status' = "running" /\ state' = "HOME" /\ steps' = 0
    /\ DogcCtxReset
    /\ picked' = <<>> /\ error' = "" /\ extracted' = <<>> /\ handed' = <<>>
    /\ walked' = <<>> /\ written' = {}
    /\ UNCHANGED <<dbVars, lastOp, connVars, boeVars, remote, handlers, on_transition, work,
                   calls, mainVars>>

\* the accept button is looked for only until it was found once
maybe_route_once(current_state) ==
    IF obstructions = 0
    THEN /\ obstructions' = obstructions + 1
         /\ resume_state' = current_state
         /\ EngineAdvance("COOKIE_CONSENT")
    ELSE /\ UNCHANGED <<obstructions, resume_state>>
         /\ EngineAdvance(current_state)

\* maybe_route_to_cookie_state when find_cookie_accept_button returns a button:
\* "context.resume_state = current_state; return DogcState.COOKIE_CONSENT"
maybe_route_to_cookie_state(current_state) ==
    /\ obstructions' = obstructions + 1
    /\ resume_state' = current_state
    /\ EngineAdvance("COOKIE_CONSENT")

\* the router sends the run to the cookie state without recording where it was
DogcDetourWithoutRecord(current_state) ==
    /\ obstructions < MaxObstructions
    /\ obstructions' = obstructions + 1
    /\ UNCHANGED resume_state
    /\ EngineAdvance("COOKIE_CONSENT")

\* maybe_route_to_cookie_state found the accept button while in current_state
DogcDetour(current_state) ==
    /\ obstructions < MaxObstructions
    /\ maybe_route_to_cookie_state(current_state)

DogcStateHome ==
    /\ EngineCanStep("HOME")
    /\ \E shown \in MonthIndexes : visible_month' = shown
    /\ \/ /\ DogcDetour("NAVIGATE_TO_START_MONTH")
       \/ /\ EngineAdvance("NAVIGATE_TO_START_MONTH")
          /\ UNCHANGED <<resume_state, obstructions>>
    /\ UNCHANGED <<dbVars, lastOp, connVars, run, from_date, to_date,
                   attempted_daily_journal_ids, current_daily_journal,
                   pending_notice_candidates, current_notice_candidate,
                   boeVars, remote, prevRun, engVars, picked, mainVars, queueVars, walked, written>>

\* any month from the start month on is taken for the start month
DogcStateNavigateAcceptsLaterMonth ==
    /\ EngineCanStep("NAVIGATE_TO_START_MONTH")
    /\ \/ /\ DogcDetour("NAVIGATE_TO_START_MONTH")
          /\ UNCHANGED visible_month
       \/ /\ visible_month >= DateMonthIndex(from_date)
          /\ EngineAdvance("PROCESS_MONTH")
          /\ UNCHANGED <<resume_state, obstructions, visible_month>>
       \/ /\ visible_month < DateMonthIndex(from_date)
          /\ status' = "failed"
          /\ UNCHANGED <<state, steps, resume_state, obstructions, visible_month>>
    /\ UNCHANGED <<dbVars, lastOp, connVars, run, from_date, to_date,
                   attempted_daily_journal_ids, current_daily_journal,
                   pending_notice_candidates, current_notice_candidate,
                   boeVars, remote, prevRun, engVars, picked, mainVars, queueVars, walked, written>>

\* state_navigate_to_start_month: probe; start month shown -> PROCESS_MONTH; an
\* older month -> RuntimeError; else one click on the previous-month control
DogcStateNavigateToStartMonth ==
    /\ EngineCanStep("NAVIGATE_TO_START_MONTH")
    /\ \/ /\ DogcDetour("NAVIGATE_TO_START_MONTH")
          /\ UNCHANGED visible_month
       \/ /\ visible_month = DateMonthIndex(from_date)
          /\ EngineAdvance("PROCESS_MONTH")
          /\ UNCHANGED <<resume_state, obstructions, visible_month>>
       \/ /\ visible_month < DateMonthIndex(from_date)
          /\ status' = "failed"
          /\ UNCHANGED <<state, steps, resume_state, obstructions, visible_month>>
       \/ /\ visible_month > DateMonthIndex(from_date)
          /\ visible_month' = visible_month - 1
          /\ EngineAdvance("NAVIGATE_TO_START_MONTH")
          /\ UNCHANGED <<resume_state, obstructions>>
    /\ UNCHANGED <<dbVars, lastOp, connVars, run, from_date, to_date,
                   attempted_daily_journal_ids, current_daily_journal,
                   pending_notice_candidates, current_notice_candidate,
                   boeVars, remote, prevRun, engVars, picked, mainVars, queueVars, walked, written>>

DogcStateProcessMonth ==
    /\ EngineCanStep("PROCESS_MONTH")
    /\ \/ /\ DogcDetour("PROCESS_MONTH")
          /\ UNCHANGED <<daily_journals, visible_month, walked, written>>
       \/ /\ LET issues == extract_clickable_issues_for_visible_month(
                               remote.dogc_issues, visible_month, from_date, to_date)
             IN /\ daily_journals' = upsert_issues_in_order(daily_journals, DogcSource,
                                                            issues)
                /\ written' = written \cup issues
          /\ walked' = Append(walked, visible_month)
          /\ \/ /\ visible_month = DateMonthIndex(to_date)
                /\ EngineAdvance("PICK_PENDING_DAILY_JOURNAL")
                /\ UNCHANGED visible_month
             \/ /\ visible_month > DateMonthIndex(to_date)
                /\ status' = "failed"
                /\ UNCHANGED <<state, steps, visible_month>>
             \/ /\ visible_month < DateMonthIndex(to_date)
                /\ visible_month' = visible_month + 1
                /\ EngineAdvance("PROCESS_MONTH")
          /\ UNCHANGED <<resume_state, obstructions>>
    /\ UNCHANGED <<notices, lastOp, connVars, run, from_date, to_date,
                   attempted_daily_journal_ids, current_daily_journal,
                   pending_notice_candidates, current_notice_candidate,
                   boeVars, remote, prevRun, engVars, picked, mainVars, queueVars>>

\* the process is terminated inside the upsert loop of state_process_month, after
\* the first k issues of the month were upserted and committed
DogcProcessMonthInterrupted ==
    /\ EngineCanStep("PROCESS_MONTH")
    /\ LET ds == extract_clickable_issues_for_visible_month(
                     remote.dogc_issues, visible_month, from_date, to_date)
       IN \E k \in ds :
             /\ \E d \in ds : d > k
             /\ daily_journals' = upsert_issues_in_order(daily_journals, DogcSource,
                                                         {d \in ds : d <= k})
             /\ written' = written \cup {d \in ds : d <= k}
    /\ status' = "killed"
    /\ UNCHANGED <<notices, lastOp, connVars, run, state, steps, from_date, to_date,
                   dogcVars, boeVars, remote, prevRun, engVars, picked, mainVars,
                   queueVars, walked>>

DogcStatePickPendingDailyJournal ==
    /\ EngineCanStep("PICK_PENDING_DAILY_JOURNAL")
    /\ \/ /\ DogcDetour("PICK_PENDING_DAILY_JOURNAL")
          /\ UNCHANGED <<attempted_daily_journal_ids, current_daily_journal,
                         pending_notice_candidates, current_notice_candidate, picked,
                         queueVars>>
       \/ LET next_daily_journal ==
                  fetch_pending_daily_journal(daily_journals, notices, DogcSource,
                                              attempted_daily_journal_ids)
          IN /\ IF next_daily_journal = <<>>
                THEN /\ EngineAdvance("DONE")
                     /\ UNCHANGED <<attempted_daily_journal_ids, current_daily_journal,
                                    pending_notice_candidates, current_notice_candidate,
                                    picked, queueVars>>
                ELSE /\ attempted_daily_journal_ids' =
                            attempted_daily_journal_ids \cup {next_daily_journal[1].id}
                     /\ picked' = Append(picked, next_daily_journal[1].id)
                     /\ extracted' = <<>> /\ handed' = <<>>
                     /\ current_daily_journal' = next_daily_journal
                     /\ pending_notice_candidates' = <<>>
                     /\ current_notice_candidate' = <<>>
                     /\ EngineAdvance("OPEN_DAILY_JOURNAL")
             /\ UNCHANGED <<resume_state, obstructions>>
    /\ UNCHANGED <<dbVars, lastOp, connVars, run, from_date, to_date, visible_month,
                   boeVars, remote, prevRun, engVars, mainVars, walked, written>>

\* the current issue is cleared although notice candidates were found
DogcStateOpenDailyJournalForgetsIssue ==
    /\ EngineCanStep("OPEN_DAILY_JOURNAL")
    /\ \/ /\ current_daily_journal = <<>>
          /\ EngineAdvance("PICK_PENDING_DAILY_JOURNAL")
          /\ UNCHANGED <<resume_state, obstructions, current_daily_journal,
                         pending_notice_candidates, queueVars>>
       \/ /\ current_daily_journal # <<>>
          /\ DogcDetour("OPEN_DAILY_JOURNAL")
          /\ UNCHANGED <<current_daily_journal, pending_notice_candidates, queueVars>>
       \/ /\ current_daily_journal # <<>>
          /\ LET candidates == extract_notice_candidates_from_daily_journal(
                                   remote.dogc_issues, current_daily_journal[1].url)
             IN /\ pending_notice_candidates' = candidates
                /\ extracted' = candidates /\ handed' = <<>>
                /\ IF candidates = <<>>
                   THEN /\ current_daily_journal' = <<>>
                        /\ EngineAdvance("PICK_PENDING_DAILY_JOURNAL")
                   ELSE /\ current_daily_journal' = <<>>
                        /\ EngineAdvance("PICK_NOTICE_LINK")
          /\ UNCHANGED <<resume_state, obstructions>>
    /\ UNCHANGED <<dbVars, lastOp, connVars, run, from_date, to_date,
                   attempted_daily_journal_ids, current_notice_candidate, visible_month,
                   boeVars, remote, prevRun, engVars, picked, mainVars, walked, written>>

\* state_open_daily_journal: no current issue -> picker; load the page; probe;
\* extract the candidates; none -> clear the issue, picker; else PICK_NOTICE_LINK
DogcStateOpenDailyJournal ==
    /\ EngineCanStep("OPEN_DAILY_JOURNAL")
    /\ \/ /\ current_daily_journal = <<>>
          /\ EngineAdvance("PICK_PENDING_DAILY_JOURNAL")
          /\ UNCHANGED <<resume_state, obstructions, current_daily_journal,
                         pending_notice_candidates, queueVars>>
       \/ /\ current_daily_journal # <<>>
          /\ DogcDetour("OPEN_DAILY_JOURNAL")
          /\ UNCHANGED <<current_daily_journal, pending_notice_candidates, queueVars>>
       \/ /\ current_daily_journal # <<>>
          /\ LET candidates == extract_notice_candidates_from_daily_journal(
                                   remote.dogc_issues, current_daily_journal[1].url)
             IN /\ pending_notice_candidates' = candidates
                /\ extracted' = candidates /\ handed' = <<>>
                /\ IF candidates = <<>>
                   THEN /\ current_daily_journal' = <<>>
                        /\ EngineAdvance("PICK_PENDING_DAILY_JOURNAL")
                   ELSE /\ UNCHANGED current_daily_journal
                        /\ EngineAdvance("PICK_NOTICE_LINK")
          /\ UNCHANGED <<resume_state, obstructions>>
    /\ UNCHANGED <<dbVars, lastOp, connVars, run, from_date, to_date,
                   attempted_daily_journal_ids, current_notice_candidate, visible_month,
                   boeVars, remote, prevRun, engVars, picked, mainVars, walked, written>>

\* the head of the queue is popped before the probe, so a detour loses it
DogcStatePickNoticeLinkPopsBeforeProbe ==
    /\ EngineCanStep("PICK_NOTICE_LINK")
    /\ \/ /\ pending_notice_candidates # <<>>
          /\ pending_notice_candidates' = Tail(pending_notice_candidates)
          /\ DogcDetour("PICK_NOTICE_LINK")
          /\ UNCHANGED <<current_daily_journal, current_notice_candidate, queueVars>>
       \/ /\ current_daily_journal = <<>>
          /\ EngineAdvance("PICK_PENDING_DAILY_JOURNAL")
          /\ UNCHANGED <<resume_state, obstructions, current_daily_journal,
                         pending_notice_candidates, current_notice_candidate, queueVars>>
       \/ /\ current_daily_journal # <<>> /\ pending_notice_candidates = <<>>
          /\ current_daily_journal' = <<>>
          /\ current_notice_candidate' = <<>>
          /\ EngineAdvance("PICK_PENDING_DAILY_JOURNAL")
          /\ UNCHANGED <<resume_state, obstructions, pending_notice_candidates, queueVars>>
       \/ /\ current_daily_journal # <<>> /\ pending_notice_candidates # <<>>
          /\ current_notice_candidate' = <<Head(pending_notice_candidates)>>
          /\ pending_notice_candidates' = Tail(pending_notice_candidates)
          /\ handed' = Append(handed, Head(pending_notice_candidates))
          /\ EngineAdvance("OPEN_NOTICE")
          /\ UNCHANGED <<resume_state, obstructions, current_daily_journal, extracted>>
    /\ UNCHANGED <<dbVars, lastOp, connVars, run, from_date, to_date,
                   attempted_daily_journal_ids, visible_month, boeVars, remote, prevRun,
                   engVars, picked, mainVars, walked, written>>

\* state_pick_notice_link: probe; no current issue -> picker; empty queue -> issue
\* finished; else pop(0) into current_notice_candidate
DogcStatePickNoticeLink ==
    /\ EngineCanStep("PICK_NOTICE_LINK")
    /\ \/ /\ DogcDetour("PICK_NOTICE_LINK")
          /\ UNCHANGED <<current_daily_journal, pending_notice_candidates,
                         current_notice_candidate, queueVars>>
       \/ /\ current_daily_journal = <<>>
          /\ EngineAdvance("PICK_PENDING_DAILY_JOURNAL")
          /\ UNCHANGED <<resume_state, obstructions, current_daily_journal,
                         pending_notice_candidates, current_notice_candidate, queueVars>>
       \/ /\ current_daily_journal # <<>> /\ pending_notice_candidates = <<>>
          /\ current_daily_journal' = <<>>
          /\ current_notice_candidate' = <<>>
          /\ EngineAdvance("PICK_PENDING_DAILY_JOURNAL")
          /\ UNCHANGED <<resume_state, obstructions, pending_notice_candidates, queueVars>>
       \/ /\ current_daily_journal # <<>> /\ pending_notice_candidates # <<>>
          /\ current_notice_candidate' = <<Head(pending_notice_candidates)>>
          /\ pending_notice_candidates' = Tail(pending_notice_candidates)
          /\ handed' = Append(handed, Head(pending_notice_candidates))
          /\ EngineAdvance("OPEN_NOTICE")
          /\ UNCHANGED <<resume_state, obstructions, current_daily_journal, extracted>>
    /\ UNCHANGED <<dbVars, lastOp, connVars, run, from_date, to_date,
                   attempted_daily_journal_ids, visible_month, boeVars, remote, prevRun, engVars, picked, mainVars, walked, written>>

DogcStateOpenNotice ==
    /\ EngineCanStep("OPEN_NOTICE")
    /\ \/ /\ current_daily_journal = <<>> \/ current_notice_candidate = <<>>
          /\ EngineAdvance("PICK_NOTICE_LINK")
          /\ UNCHANGED <<notices, resume_state, obstructions, current_notice_candidate>>
       \/ /\ current_daily_journal # <<>> /\ current_notice_candidate # <<>>
          /\ DogcDetour("OPEN_NOTICE")
          /\ UNCHANGED <<notices, current_notice_candidate>>
       \/ /\ current_daily_journal # <<>> /\ current_notice_candidate # <<>>
          /\ LET c == current_notice_candidate[1]
                 title == notice_final_title(c)
             IN notices' = IF title = "" THEN notices
                           ELSE upsert_notice(notices, current_daily_journal[1].id,
                                              title, c.final_url, c.content)
          /\ current_notice_candidate' = <<>>
          /\ EngineAdvance("PICK_NOTICE_LINK")
          /\ UNCHANGED <<resume_state, obstructions>>
    /\ UNCHANGED <<daily_journals, lastOp, connVars, run, from_date, to_date,
                   attempted_daily_journal_ids, current_daily_journal,
                   pending_notice_candidates, visible_month, boeVars, remote, prevRun, engVars, picked, mainVars, queueVars, walked, written>>

\* an empty register is an error instead of a fall back to the default state
DogcStateCookieConsentStrict ==
    /\ EngineCanStep("COOKIE_CONSENT")
    /\ \/ /\ status' = "failed"
          /\ error' = "cookie_button_not_found"
          /\ UNCHANGED <<state, steps, resume_state>>
       \/ /\ resume_state = "None"
          /\ status' = "failed"
          /\ error' = "empty_register"
          /\ UNCHANGED <<state, steps, resume_state>>
       \/ /\ resume_state # "None"
          /\ resume_state' = "None"
          /\ EngineAdvance(resume_state)
          /\ UNCHANGED error
    /\ UNCHANGED <<dbVars, lastOp, connVars, run, from_date, to_date,
                   attempted_daily_journal_ids, current_daily_journal,
                   pending_notice_candidates, current_notice_candidate, visible_month,
                   obstructions, boeVars, remote, prevRun, handlers, on_transition, work,
                   calls, picked, mainVars, queueVars, walked, written>>

\* with no accept button on the page the handler resumes instead of raising
DogcStateCookieConsentGuessing ==
    /\ EngineCanStep("COOKIE_CONSENT")
    /\ \/ /\ error' = "cookie_button_not_found"
          /\ resume_state' = "None"
          /\ EngineAdvance(IF resume_state = "None" THEN "NAVIGATE_TO_START_MONTH"
                           ELSE resume_state)
       \/ /\ resume_state = "None"
          /\ EngineAdvance("NAVIGATE_TO_START_MONTH")
          /\ UNCHANGED <<resume_state, error>>
       \/ /\ resume_state # "None"
          /\ resume_state' = "None"
          /\ EngineAdvance(resume_state)
          /\ UNCHANGED error
    /\ UNCHANGED <<dbVars, lastOp, connVars, run, from_date, to_date,
                   attempted_daily_journal_ids, current_daily_journal,
                   pending_notice_candidates, current_notice_candidate, visible_month,
                   obstructions, boeVars, remote, prevRun, handlers, on_transition, work,
                   calls, picked, mainVars, queueVars, walked, written>>

\* the register is read but not emptied
DogcStateCookieConsentKeepsRegister ==
    /\ EngineCanStep("COOKIE_CONSENT")
    /\ \/ /\ status' = "failed"
          /\ error' = "cookie_button_not_found"
          /\ UNCHANGED <<state, steps, resume_state>>
       \/ /\ resume_state = "None"
          /\ EngineAdvance("NAVIGATE_TO_START_MONTH")
          /\ UNCHANGED <<resume_state, error>>
       \/ /\ resume_state # "None"
          /\ UNCHANGED resume_state
          /\ EngineAdvance(resume_state)
          /\ UNCHANGED error
    /\ UNCHANGED <<dbVars, lastOp, connVars, run, from_date, to_date,
                   attempted_daily_journal_ids, current_daily_journal,
                   pending_notice_candidates, current_notice_candidate, visible_month,
                   obstructions, boeVars, remote, prevRun, handlers, on_transition, work,
                   calls, picked, mainVars, queueVars, walked, written>>

\* state_cookie_consent: no accept button -> RuntimeError before the register is
\* read; otherwise click, then resume the recorded state or, with nothing
\* recorded, NAVIGATE_TO_START_MONTH
DogcStateCookieConsent ==
    /\ EngineCanStep("COOKIE_CONSENT")
    /\ \/ /\ status' = "failed"
          /\ error' = "cookie_button_not_found"
          /\ UNCHANGED <<state, steps, resume_state>>
       \/ /\ resume_state = "None"
          /\ EngineAdvance("NAVIGATE_TO_START_MONTH")
          /\ UNCHANGED <<resume_state, error>>
       \/ /\ resume_state # "None"
          /\ resume_state' = "None"
          /\ EngineAdvance(resume_state)
          /\ UNCHANGED error
    /\ UNCHANGED <<dbVars, lastOp, connVars, run, from_date, to_date,
                   attempted_daily_journal_ids, current_daily_journal,
                   pending_notice_candidates, current_notice_candidate, visible_month,
                   obstructions, boeVars, remote, prevRun, handlers, on_transition, work,
                   calls, picked, mainVars, queueVars, walked, written>>

\* sources.start_at of the source row: the first day, a later day, a day after today
DogcStartDates == {SourceStartAt, SourceStartAt + 1, Today + 1}

\* the database already holds an issue of the other source, without notices
InitDogc ==
    /\ daily_journals = upsert_daily_journal(<<>>, BoeSource, 1, boe_daily_journal_url(1), "d1")
    /\ notices = <<>> /\ lastOp = NoCall
    /\ ConnIdle /\ ProcIdle /\ DogcIdle /\ BoeIdle /\ EngIdle
    /\ remote \in {[dogc_issues |-> p, boe_items |-> <<>>] : p \in SUBSET Dates}
    /\ prevRun = NoPrevRun

NextDogc ==
    \/ \E start \in DogcStartDates : DogcStartRun(start)
    \/ DogcStateHome
    \/ DogcStateCookieConsent
    \/ DogcStateNavigateToStartMonth
    \/ DogcStateProcessMonth
    \/ DogcProcessMonthInterrupted
    \/ DogcStatePickPendingDailyJournal
    \/ DogcStateOpenDailyJournal
    \/ DogcStatePickNoticeLink
    \/ DogcStateOpenNotice
    \/ EngineBudgetExceeded
    \/ ProcessTerminated

SpecDogc == InitDogc /\ [][NextDogc]_vars

(***************************************************************************)
(* C1, C9: the pending query as the work queue of the drain                *)
(***************************************************************************)
DrainStates == {"PICK_PENDING_DAILY_JOURNAL", "OPEN_DAILY_JOURNAL", "PICK_NOTICE_LINK",
                "OPEN_NOTICE"}

InDrain == state \in DrainStates \/ (state = "COOKIE_CONSENT" /\ resume_state \in DrainStates)

NoticeCountOf(i) == Cardinality({k \in DOMAIN notices : notices[k].daily_journal_id = i})

\* notices listed on the summary page of issue row i that have no row yet
UnpersistedNoticesOf(i) ==
    LET listed == extract_notice_candidates_from_daily_journal(remote.dogc_issues,
                                                               daily_journals[i].url)
    IN {n \in DOMAIN listed :
           \A k \in DOMAIN notices :
               ~(notices[k].daily_journal_id = i /\ notices[k].url = listed[n].final_url)}

\* C1 as stated: when a run is terminated during the drain, every issue of the source
\* that still has notices not yet persisted is returned by the pending query (so the
\* next run picks it up again).
C1_TerminatedDrainLosesNoIssue ==
    (status \in {"killed", "failed"} /\ InDrain) =>
        \A i \in DOMAIN daily_journals :
            (daily_journals[i].source_id = DogcSource /\ UnpersistedNoticesOf(i) # {}) =>
                i \in pending_ids(daily_journals, notices, DogcSource)

\* C9: the pending query never returns an issue that has a persisted notice nor an
\* issue of another source; neither does fetch_pending_daily_journal, and the issue
\* the drain has just picked has no notice and belongs to the run's source.
C9_PendingIssuesHaveNoNotices ==
    /\ \A s \in SourceIds :
          /\ \A i \in pending_ids(daily_journals, notices, s) :
                daily_journals[i].source_id = s /\ NoticeCountOf(i) = 0
          /\ LET r == fetch_pending_daily_journal(daily_journals, notices, s,
                                                  attempted_daily_journal_ids)
             IN r # <<>> => /\ daily_journals[r[1].id].source_id = s
                            /\ NoticeCountOf(r[1].id) = 0
    /\ (status = "running" /\ state = "OPEN_DAILY_JOURNAL" /\ current_daily_journal # <<>>) =>
          /\ daily_journals[current_daily_journal[1].id].source_id = DogcSource
          /\ NoticeCountOf(current_daily_journal[1].id) = 0

\* a later run picks an issue while another issue of the source already has notices
\* and an issue of the other source has none
C9_Witness ==
    /\ run >= 2 /\ status = "running" /\ state = "OPEN_DAILY_JOURNAL"
    /\ current_daily_journal # <<>>
    /\ \E i \in DOMAIN daily_journals :
          daily_journals[i].source_id = DogcSource /\ NoticeCountOf(i) > 0
    /\ \E i \in DOMAIN daily_journals :
          daily_journals[i].source_id = BoeSource /\ NoticeCountOf(i) = 0

(***************************************************************************)
(* BOE: paginated search                                                   *)
(***************************************************************************)
PageSize == 2

\* a raw command line date: 0 is an absent or empty option, -1 a malformed string,
\* a positive number the ISO text of that day
RawDates == {0, -1} \cup Dates
RawIsValid(raw) == raw \in Dates

\* the latest issue date of the whole table, whatever the source
max_issue_date_all_sources(rows, source_id) ==
    LET ds == {rows[i].issue_date : i \in DOMAIN rows}
    IN IF ds = {} THEN 0 ELSE CHOOSE d \in ds : \A e \in ds : e <= d

\* "SELECT MAX(issue_date) FROM daily_journals WHERE source_id = %s"; 0 when no row
max_issue_date(rows, source_id) ==
    LET ds == {rows[i].issue_date : i \in {i \in DOMAIN rows : rows[i].source_id = source_id}}
    IN IF ds = {} THEN 0 ELSE CHOOSE d \in ds : \A e \in ds : e <= d

\* the window restarts on the latest persisted day itself
resume_from_latest_day(rows, source_id, source_start_at) ==
    IF max_issue_date(rows, source_id) = 0 THEN source_start_at
    ELSE max_issue_date(rows, source_id)

\* "from_date = source_start_at" or "latest_issue_date + timedelta(days=1)"
resume_from_date(rows, source_id, source_start_at) ==
    IF max_issue_date(rows, source_id) = 0 THEN source_start_at
    ELSE max_issue_date(rows, source_id) + 1

\* --day wins over a range given with it
resolve_crawl_range_day_first(rows, source_id, source_start_at, day, from_date_raw, to_date_raw) ==
    IF day # 0
    THEN IF ~RawIsValid(day) THEN [ok |-> FALSE, from_date |-> 0, to_date |-> 0]
         ELSE [ok |-> TRUE, from_date |-> day, to_date |-> day]
    ELSE IF from_date_raw # 0 \/ to_date_raw # 0
    THEN IF from_date_raw = 0 \/ to_date_raw = 0
            \/ ~RawIsValid(from_date_raw) \/ ~RawIsValid(to_date_raw)
            \/ from_date_raw > to_date_raw
         THEN [ok |-> FALSE, from_date |-> 0, to_date |-> 0]
         ELSE [ok |-> TRUE, from_date |-> from_date_raw, to_date |-> to_date_raw]
    ELSE [ok |-> TRUE,
          from_date |-> resume_from_date(rows, source_id, source_start_at),
          to_date |-> Today]

\* a range with one bound is completed from the watermark or today
resolve_crawl_range_open_range(rows, source_id, source_start_at, day, from_date_raw, to_date_raw) ==
    IF day # 0
    THEN IF from_date_raw # 0 \/ to_date_raw # 0 \/ ~RawIsValid(day)
         THEN [ok |-> FALSE, from_date |-> 0, to_date |-> 0]
         ELSE [ok |-> TRUE, from_date |-> day, to_date |-> day]
    ELSE LET f == IF from_date_raw = 0
                  THEN resume_from_date(rows, source_id, source_start_at) ELSE from_date_raw
             t == IF to_date_raw = 0 THEN Today ELSE to_date_raw
         IN IF ~(f \in Nat) \/ ~(t \in Nat) \/ (from_date_raw # 0 /\ to_date_raw # 0 /\ f > t)
            THEN [ok |-> FALSE, from_date |-> 0, to_date |-> 0]
            ELSE [ok |-> TRUE, from_date |-> f, to_date |-> t]

\* the range is returned as given, without comparing its bounds
resolve_crawl_range_unordered(rows, source_id, source_start_at, day, from_date_raw, to_date_raw) ==
    IF day # 0
    THEN IF from_date_raw # 0 \/ to_date_raw # 0 \/ ~RawIsValid(day)
         THEN [ok |-> FALSE, from_date |-> 0, to_date |-> 0]
         ELSE [ok |-> TRUE, from_date |-> day, to_date |-> day]
    ELSE IF from_date_raw # 0 \/ to_date_raw # 0
    THEN IF from_date_raw = 0 \/ to_date_raw = 0
            \/ ~RawIsValid(from_date_raw) \/ ~RawIsValid(to_date_raw)
         THEN [ok |-> FALSE, from_date |-> 0, to_date |-> 0]
         ELSE [ok |-> TRUE, from_date |-> from_date_raw, to_date |-> to_date_raw]
    ELSE [ok |-> TRUE,
          from_date |-> resume_from_date(rows, source_id, source_start_at),
          to_date |-> Today]

\* resolve_crawl_range: [ok |-> FALSE] when it raises
resolve_crawl_range(rows, source_id, source_start_at, day, from_date_raw, to_date_raw) ==
    IF day # 0
    THEN IF from_date_raw # 0 \/ to_date_raw # 0
         THEN [ok |-> FALSE, from_date |-> 0, to_date |-> 0]
         ELSE IF ~RawIsValid(day)
         THEN [ok |-> FALSE, from_date |-> 0, to_date |-> 0]
         ELSE [ok |-> TRUE, from_date |-> day, to_date |-> day]
    ELSE IF from_date_raw # 0 \/ to_date_raw # 0
    THEN IF from_date_raw = 0 \/ to_date_raw = 0
         THEN [ok |-> FALSE, from_date |-> 0, to_date |-> 0]
         ELSE IF ~RawIsValid(from_date_raw) \/ ~RawIsValid(to_date_raw)
         THEN [ok |-> FALSE, from_date |-> 0, to_date |-> 0]
         ELSE IF from_date_raw > to_date_raw
         THEN [ok |-> FALSE, from_date |-> 0, to_date |-> 0]
         ELSE [ok |-> TRUE, from_date |-> from_date_raw, to_date |-> to_date_raw]
    ELSE [ok |-> TRUE,
          from_date |-> resume_from_date(rows, source_id, source_start_at),
          to_date |-> Today]

\* search results of the site, in listing order
ItemX == [issue_date |-> 2, daily_journal_description |-> "BOE 2", title |-> "a",
          detail_url |-> "p1", detail_title |-> "", eli_url |-> "u", content |-> "c1"]
ItemY == [issue_date |-> 2, daily_journal_description |-> "BOE 2", title |-> "b",
          detail_url |-> "p2", detail_title |-> "", eli_url |-> "u", content |-> "c2"]
ItemZ == [issue_date |-> 2, daily_journal_description |-> "BOE 2", title |-> "c",
          detail_url |-> "v", detail_title |-> "b", eli_url |-> "", content |-> "c1"]
ItemW == [issue_date |-> 1, daily_journal_description |-> "BOE 1", title |-> "a",
          detail_url |-> "w", detail_title |-> "", eli_url |-> "", content |-> "c1"]
BoeListing == <<ItemX, ItemY, ItemZ, ItemW>>

RECURSIVE SubSeqOf(_, _)
SubSeqOf(seq, keep) ==
    IF seq = <<>> THEN <<>>
    ELSE (IF Len(seq) \in keep THEN SubSeqOf(SubSeq(seq, 1, Len(seq) - 1), keep) \o <<seq[Len(seq)]>>
          ELSE SubSeqOf(SubSeq(seq, 1, Len(seq) - 1), keep))

BoeRemotes == {SubSeqOf(BoeListing, keep) : keep \in SUBSET DOMAIN BoeListing}

\* items of result page n
BoePageItems(items, n) ==
    SubSeq(items, (n - 1) * PageSize + 1,
           IF n * PageSize < Len(items) THEN n * PageSize ELSE Len(items))

\* extract_next_page_url: the "pagSig" link, 0 when the page has none
extract_next_page_url(items, n) == IF n * PageSize < Len(items) THEN n + 1 ELSE 0

RECURSIVE FilterInWindow(_, _, _)
FilterInWindow(items, from, to) ==
    IF items = <<>> THEN <<>>
    ELSE IF Head(items).issue_date < from \/ Head(items).issue_date > to
         THEN FilterInWindow(Tail(items), from, to)
         ELSE <<Head(items)>> \o FilterInWindow(Tail(items), from, to)

\* extract_results_from_page: results of the loaded page dated inside the window
extract_results_from_page(items, n, from, to) ==
    FilterInWindow(BoePageItems(items, n), from, to)

\* the page's results, whatever their date
extract_results_unfiltered(items, n, from, to) == BoePageItems(items, n)

\* state_open_notice: "title = detail['title'] or result title", "url = detail['url'] or
\* detail_url" with detail['url'] = eli_url or driver.current_url
boe_final_title(item) == IF item.detail_title # "" THEN item.detail_title ELSE item.title
boe_final_url(item) == IF item.eli_url # "" THEN item.eli_url ELSE item.detail_url

BoeCtxReset ==
    /\ pending_results' = <<>> /\ current_result' = <<>> /\ next_page_url' = 0 /\ page' = 0

\* main: a new process resolves its window, returns 0 on an empty window and starts
\* the engine otherwise
BoeStartRun(day, from_date_raw, to_date_raw) ==
    /\ status # "running" /\ run < MaxRuns
    /\ run' = run + 1
    /\ prevRun' = RunSummary
    /\ LET w == resolve_crawl_range(daily_journals, BoeSource, SourceStartAt,
                                    day, from_date_raw, to_date_raw)
       IN /\ from_date' = w.from_date /\ to_date' = w.to_date
          /\ IF ~w.ok THEN status' = "failed" /\ UNCHANGED <<state, steps>>
             ELSE IF w.from_date > w.to_date THEN status' = "done" /\ UNCHANGED <<state, steps>>
             ELSE status' = "running" /\ state' = "HOME" /\ steps' = 0
    /\ BoeCtxReset
    /\ error' = "" /\ extracted' = <<>> /\ handed' = <<>> /\ walked' = <<>> /\ written' = {}
    /\ UNCHANGED <<dbVars, lastOp, connVars, dogcVars, remote, handlers, on_transition, work,
                   calls, picked, mainVars>>

BoeStateHome ==
    /\ EngineCanStep("HOME")
    /\ EngineAdvance("PREPARE_SEARCH")
    /\ UNCHANGED <<dbVars, lastOp, connVars, run, from_date, to_date, dogcVars, boeVars,
                   remote, prevRun, engVars, picked, mainVars, queueVars, walked, written>>

BoeStatePrepareSearch ==
    /\ EngineCanStep("PREPARE_SEARCH")
    /\ page' = 1
    /\ EngineAdvance("PARSE_RESULTS_PAGE")
    /\ UNCHANGED <<dbVars, lastOp, connVars, run, from_date, to_date, dogcVars,
                   pending_results, current_result, next_page_url, remote, prevRun, engVars, picked, mainVars, queueVars, walked, written>>

BoeStateParseResultsPage ==
    /\ EngineCanStep("PARSE_RESULTS_PAGE")
    /\ pending_results' = extract_results_from_page(remote.boe_items, page, from_date, to_date)
    /\ next_page_url' = extract_next_page_url(remote.boe_items, page)
    /\ extracted' = pending_results' /\ handed' = <<>>
    /\ EngineAdvance("PROCESS_RESULT_ITEM")
    /\ UNCHANGED <<dbVars, lastOp, connVars, run, from_date, to_date, dogcVars,
                   current_result, page, remote, prevRun, engVars, picked, mainVars, walked, written>>

\* the next page is opened as soon as there is one, before the queue is drained
BoeStateProcessResultItemPagesFirst ==
    /\ EngineCanStep("PROCESS_RESULT_ITEM")
    /\ IF next_page_url # 0
       THEN /\ EngineAdvance("OPEN_NEXT_PAGE")
            /\ UNCHANGED <<current_result, pending_results, queueVars>>
       ELSE IF pending_results # <<>>
       THEN /\ current_result' = <<Head(pending_results)>>
            /\ pending_results' = Tail(pending_results)
            /\ handed' = Append(handed, Head(pending_results))
            /\ EngineAdvance("OPEN_NOTICE")
            /\ UNCHANGED extracted
       ELSE /\ UNCHANGED <<current_result, pending_results, queueVars>>
            /\ EngineAdvance("DONE")
    /\ UNCHANGED <<dbVars, lastOp, connVars, run, from_date, to_date, dogcVars,
                   next_page_url, page, remote, prevRun, engVars, picked, mainVars, walked, written>>

\* the queue is popped at its tail
BoeStateProcessResultItemFromTail ==
    /\ EngineCanStep("PROCESS_RESULT_ITEM")
    /\ IF pending_results # <<>>
       THEN /\ current_result' = <<pending_results[Len(pending_results)]>>
            /\ pending_results' = SubSeq(pending_results, 1, Len(pending_results) - 1)
            /\ handed' = Append(handed, pending_results[Len(pending_results)])
            /\ EngineAdvance("OPEN_NOTICE")
            /\ UNCHANGED extracted
       ELSE /\ UNCHANGED <<current_result, pending_results, queueVars>>
            /\ IF next_page_url # 0 THEN EngineAdvance("OPEN_NEXT_PAGE")
               ELSE EngineAdvance("DONE")
    /\ UNCHANGED <<dbVars, lastOp, connVars, run, from_date, to_date, dogcVars,
                   next_page_url, page, remote, prevRun, engVars, picked, mainVars, walked, written>>

\* state_process_result_item: pop(0) into current_result; with an empty queue, the
\* next page if there is one, else DONE
BoeStateProcessResultItem ==
    /\ EngineCanStep("PROCESS_RESULT_ITEM")
    /\ IF pending_results # <<>>
       THEN /\ current_result' = <<Head(pending_results)>>
            /\ pending_results' = Tail(pending_results)
            /\ handed' = Append(handed, Head(pending_results))
            /\ EngineAdvance("OPEN_NOTICE")
            /\ UNCHANGED extracted
       ELSE /\ UNCHANGED <<current_result, pending_results, queueVars>>
            /\ IF next_page_url # 0 THEN EngineAdvance("OPEN_NEXT_PAGE")
               ELSE EngineAdvance("DONE")
    /\ UNCHANGED <<dbVars, lastOp, connVars, run, from_date, to_date, dogcVars,
                   next_page_url, page, remote, prevRun, engVars, picked, mainVars, walked, written>>

BoeStateOpenNotice ==
    /\ EngineCanStep("OPEN_NOTICE")
    /\ IF current_result = <<>>
       THEN /\ EngineAdvance("PROCESS_RESULT_ITEM")
            /\ UNCHANGED <<dbVars, current_result, written>>
       ELSE LET item == current_result[1]
                journals == upsert_daily_journal(daily_journals, BoeSource, item.issue_date,
                                boe_daily_journal_url(item.issue_date),
                                item.daily_journal_description)
                daily_journal_id == returning_id(journals, BoeSource, item.issue_date)
            IN /\ daily_journals' = journals
               /\ written' = written \cup {item.issue_date}
               /\ notices' = upsert_notice(notices, daily_journal_id, boe_final_title(item),
                                           boe_final_url(item), item.content)
               /\ current_result' = <<>>
               /\ EngineAdvance("PROCESS_RESULT_ITEM")
    /\ UNCHANGED <<lastOp, connVars, run, from_date, to_date, dogcVars,
                   pending_results, next_page_url, page, remote, prevRun, engVars, picked,
                   mainVars, queueVars, walked>>

\* state_open_notice raises after upsert_daily_journal committed: the wait for the
\* detail page times out; main returns 1
BoeOpenNoticeInterrupted ==
    /\ EngineCanStep("OPEN_NOTICE")
    /\ current_result # <<>>
    /\ daily_journals' = upsert_daily_journal(daily_journals, BoeSource,
                            current_result[1].issue_date,
                            boe_daily_journal_url(current_result[1].issue_date),
                            current_result[1].daily_journal_description)
    /\ written' = written \cup {current_result[1].issue_date}
    /\ status' = "failed"
    /\ UNCHANGED <<notices, lastOp, connVars, run, state, steps, from_date, to_date,
                   dogcVars, boeVars, remote, prevRun, engVars, picked, mainVars,
                   queueVars, walked>>

BoeStateOpenNextPage ==
    /\ EngineCanStep("OPEN_NEXT_PAGE")
    /\ IF next_page_url = 0
       THEN /\ EngineAdvance("DONE")
            /\ UNCHANGED <<next_page_url, page>>
       ELSE /\ page' = next_page_url
            /\ next_page_url' = 0
            /\ EngineAdvance("PARSE_RESULTS_PAGE")
    /\ UNCHANGED <<dbVars, lastOp, connVars, run, from_date, to_date, dogcVars,
                   pending_results, current_result, remote, prevRun, engVars, picked, mainVars, queueVars, walked, written>>

\* --day, --from-date, --to-date of a command line: none, --day alone, a pair, one of
\* a pair, --day together with a bound
BoeCommandLines ==
    {<<day, 0, 0>> : day \in RawDates}
    \cup {<<0, f, t>> : f \in RawDates, t \in RawDates}
    \cup {<<day, f, 0>> : day \in {1}, f \in {1}}

InitBoe ==
    /\ daily_journals = <<>> /\ notices = <<>> /\ lastOp = NoCall
    /\ ConnIdle /\ ProcIdle /\ DogcIdle /\ BoeIdle /\ EngIdle
    /\ remote \in {[dogc_issues |-> {}, boe_items |-> items] : items \in BoeRemotes}
    /\ prevRun = NoPrevRun

NextBoe ==
    \/ \E args \in BoeCommandLines : BoeStartRun(args[1], args[2], args[3])
    \/ BoeStateHome
    \/ BoeStatePrepareSearch
    \/ BoeStateParseResultsPage
    \/ BoeStateProcessResultItem
    \/ BoeStateOpenNotice
    \/ BoeOpenNoticeInterrupted
    \/ BoeStateOpenNextPage
    \/ EngineBudgetExceeded
    \/ ProcessTerminated

SpecBoe == InitBoe /\ [][NextBoe]_vars

(***************************************************************************)
(* C2, C10: re-invocation                                                  *)
(***************************************************************************)
BoeIssueIds(d) == IssueRowsOf(daily_journals, BoeSource, d)

\* the item has a notice row: a row of its issue with its url
BoeItemPersisted(item) ==
    \E i \in BoeIssueIds(item.issue_date) : \E k \in DOMAIN notices :
        notices[k].daily_journal_id = i /\ notices[k].url = boe_final_url(item)

\* the run got to know the item: it is queued, or in hand, or its issue was upserted
BoeItemDiscovered(item) ==
    \/ \E n \in DOMAIN pending_results : pending_results[n] = item
    \/ current_result = <<item>>
    \/ BoeIssueIds(item.issue_date) # {}

\* C2 as stated: after a run was terminated, the window a next run resolves with no
\* overrides contains the issue date of every discovered item that is not persisted.
C2_NextWindowCoversUnpersisted ==
    status \in {"killed", "failed"} =>
        LET w == resolve_crawl_range(daily_journals, BoeSource, SourceStartAt, 0, 0, 0)
        IN \A n \in DOMAIN remote.boe_items :
              LET item == remote.boe_items[n]
              IN (BoeItemDiscovered(item) /\ ~BoeItemPersisted(item)) =>
                    (w.from_date <= item.issue_date /\ item.issue_date <= w.to_date)

\* C10 as stated: a run that completes after the previous run completed with the same
\* window (remote content unchanged) leaves the tables with the number of issue rows
\* and notice rows they had when it started.
C10_RerunAddsNoRows ==
    (status = "done" /\ prevRun.completed
     /\ prevRun.from_date = from_date /\ prevRun.to_date = to_date) =>
        /\ Len(daily_journals) = prevRun.journals
        /\ Len(notices) = prevRun.notices

(***************************************************************************)
(* Window resolution over successive runs of the BOE source                *)
(***************************************************************************)
\* command lines of the crawl and more conflicting ones
WindowCommandLines ==
    BoeCommandLines \cup {<<day, f, t>> : day \in {-1, 1}, f \in {0, 1}, t \in {0, MaxDate}}

\* sources.start_at of the row of the source: the first day, a later day, a day after today
WindowStartDates == {SourceStartAt, SourceStartAt + 1, Today + 1}

NoPlainCall == [plain |-> FALSE, watermark |-> 0, from_date |-> 0, to_date |-> 0]

\* nothing resolved yet; the source row has start_at = s
NoResolveCall(s) ==
    [op |-> "none", source_start_at |-> s, day |-> 0, from_date_raw |-> 0, to_date_raw |-> 0,
     watermark |-> 0, ok |-> FALSE, prev |-> NoPlainCall]

IsPlainCall(call) ==
    call.op = "resolve_crawl_range" /\ call.ok
    /\ call.day = 0 /\ call.from_date_raw = 0 /\ call.to_date_raw = 0

\* main up to the start of the engine: resolve the window, return 0 when it is empty
WindowResolve(day, from_date_raw, to_date_raw) ==
    /\ status # "running"
    /\ LET w == resolve_crawl_range(daily_journals, BoeSource, lastOp.source_start_at,
                                    day, from_date_raw, to_date_raw)
           call == [op |-> "resolve_crawl_range", source_start_at |-> lastOp.source_start_at,
                    day |-> day, from_date_raw |-> from_date_raw, to_date_raw |-> to_date_raw,
                    watermark |-> max_issue_date(daily_journals, BoeSource), ok |-> w.ok,
                    prev |-> IF IsPlainCall(lastOp)
                             THEN [plain |-> TRUE, watermark |-> lastOp.watermark,
                                   from_date |-> from_date, to_date |-> to_date]
                             ELSE NoPlainCall]
       IN /\ lastOp' = call
          /\ from_date' = w.from_date /\ to_date' = w.to_date
          /\ status' = IF ~w.ok THEN "failed"
                       ELSE IF w.from_date > w.to_date THEN "done" ELSE "running"
    /\ UNCHANGED <<dbVars, connVars, run, state, steps, dogcVars, boeVars, remote, prevRun, engVars, picked, mainVars, queueVars, walked, written>>

\* the run persists an issue found by the search: its date is inside the window
WindowPersistIssue(issue_date) ==
    /\ status = "running"
    /\ from_date <= issue_date /\ issue_date <= to_date
    /\ daily_journals' = upsert_daily_journal(daily_journals, BoeSource, issue_date,
                                              boe_daily_journal_url(issue_date), "d1")
    /\ UNCHANGED <<notices, lastOp, connVars, procVars, dogcVars, boeVars, remote, prevRun, engVars, picked, mainVars, queueVars, walked, written>>

\* the run is over: it returned, failed or was terminated
WindowRunEnds ==
    /\ status = "running"
    /\ status' = "done"
    /\ UNCHANGED <<dbVars, lastOp, connVars, run, state, steps, from_date, to_date,
                   dogcVars, boeVars, remote, prevRun, engVars, picked, mainVars, queueVars, walked, written>>

InitWindow ==
    /\ daily_journals \in {<<>>, upsert_daily_journal(<<>>, DogcSource, MaxDate, "x", "d1")}
    /\ notices = <<>>
    /\ lastOp \in {NoResolveCall(s) : s \in WindowStartDates}
    /\ ConnIdle /\ ProcIdle /\ DogcIdle /\ BoeIdle /\ EngIdle
    /\ remote = NoRemote /\ prevRun = NoPrevRun

NextWindow ==
    \/ \E args \in WindowCommandLines : WindowResolve(args[1], args[2], args[3])
    \/ \E d \in Dates : WindowPersistIssue(d)
    \/ WindowRunEnds

SpecWindow == InitWindow /\ [][NextWindow]_vars

(***************************************************************************)
(* C11, C12, C14, C15, C16: the resolved window                            *)
(***************************************************************************)
BoeIssueDates == {daily_journals[i].issue_date :
                    i \in {i \in DOMAIN daily_journals : daily_journals[i].source_id = BoeSource}}

ResolvedNow == lastOp' # lastOp /\ lastOp'.op = "resolve_crawl_range"

\* C11: a resolution with no --day and no range returns, when the source has persisted
\* issues, from = the day after the latest of them and otherwise from = the start date
\* of the source; to = today in both cases.
C11_PlainWindowFollowsWatermark ==
    [][(ResolvedNow /\ lastOp'.day = 0 /\ lastOp'.from_date_raw = 0 /\ lastOp'.to_date_raw = 0) =>
          /\ lastOp'.ok
          /\ to_date' = Today
          /\ IF BoeIssueDates = {}
             THEN from_date' = lastOp'.source_start_at
             ELSE /\ from_date' - 1 \in BoeIssueDates
                  /\ \A d \in BoeIssueDates : d < from_date']_vars

C11_Witness ==
    /\ IsPlainCall(lastOp) /\ lastOp.watermark = 1 /\ from_date = 2 /\ to_date = Today
    /\ lastOp.source_start_at = Today + 1
    /\ \E i \in DOMAIN daily_journals :
          daily_journals[i].source_id = DogcSource /\ daily_journals[i].issue_date = MaxDate

\* C12: of two successive resolutions with no overrides the second never starts before
\* the watermark the first one observed; and when the first resolved [start, today]
\* on a source without issues and its run left the day before today as the latest
\* persisted issue, the second resolves [today, today].
C12_NextWindowNotBeforeWatermark ==
    (IsPlainCall(lastOp) /\ lastOp.prev.plain) =>
        /\ from_date >= lastOp.prev.watermark
        /\ (lastOp.prev.watermark # 0 => from_date > lastOp.prev.watermark)
        /\ (/\ lastOp.prev.watermark = 0
            /\ lastOp.prev.from_date = lastOp.source_start_at
            /\ lastOp.prev.from_date < Today - 1
            /\ lastOp.prev.to_date = Today
            /\ lastOp.watermark = Today - 1)
           => (from_date = Today /\ to_date = Today)

C12_Witness ==
    /\ IsPlainCall(lastOp) /\ lastOp.prev.plain
    /\ lastOp.prev.watermark = 0 /\ lastOp.prev.from_date = 1 /\ lastOp.prev.to_date = Today
    /\ BoeIssueDates = {Today - 1}
    /\ from_date = Today /\ to_date = Today /\ status = "running"

\* C14 as stated: every window the resolution returns without raising has from <= to.
C14_Original ==
    (lastOp.op = "resolve_crawl_range" /\ lastOp.ok) => from_date <= to_date

\* C14: a window resolved from --day or from a range has from <= to; a window resolved
\* with no overrides has from > to exactly when the watermark is today or later, or
\* the source has no issue and starts after today, and then the process returns 0
\* without running the engine; every window a run works with has from <= to.
C14_EmptyWindowIsNotRun ==
    (lastOp.op = "resolve_crawl_range" /\ lastOp.ok) =>
        /\ ~IsPlainCall(lastOp) => from_date <= to_date
        /\ IsPlainCall(lastOp) =>
              (from_date > to_date <=>
                  \/ lastOp.watermark >= Today
                  \/ (lastOp.watermark = 0 /\ lastOp.source_start_at > Today))
        /\ from_date > to_date => status = "done"
        /\ status = "running" => from_date <= to_date

C14_Witness ==
    /\ IsPlainCall(lastOp) /\ lastOp.watermark = Today
    /\ from_date = Today + 1 /\ to_date = Today /\ status = "done"

\* C15: --day together with --from-date or --to-date fails and yields no window; a valid
\* --day d alone yields [d, d] whatever the persisted issues are.
C15_DayExcludesRange ==
    lastOp.op = "resolve_crawl_range" =>
        /\ (lastOp.day # 0 /\ (lastOp.from_date_raw # 0 \/ lastOp.to_date_raw # 0)) =>
              (~lastOp.ok /\ status = "failed" /\ from_date = 0 /\ to_date = 0)
        /\ (lastOp.day \in Dates /\ lastOp.from_date_raw = 0 /\ lastOp.to_date_raw = 0) =>
              (lastOp.ok /\ from_date = lastOp.day /\ to_date = lastOp.day)

C15_Witness ==
    /\ lastOp.op = "resolve_crawl_range" /\ lastOp.day = 1
    /\ lastOp.from_date_raw = 0 /\ lastOp.to_date_raw = 0
    /\ lastOp.watermark = MaxDate /\ from_date = 1 /\ to_date = 1 /\ status = "running"

C15_WitnessConflict ==
    /\ lastOp.op = "resolve_crawl_range" /\ lastOp.day = 1 /\ lastOp.to_date_raw = MaxDate
    /\ status = "failed"

\* C16: with no --day, exactly one range bound fails; both bounds with from > to fail;
\* both bounds with from <= to yield exactly [from, to] whatever the watermark and
\* the start date of the source are.
C16_RangeNeedsBothBoundsInOrder ==
    (lastOp.op = "resolve_crawl_range" /\ lastOp.day = 0) =>
        /\ ((lastOp.from_date_raw = 0) # (lastOp.to_date_raw = 0)) =>
              (~lastOp.ok /\ status = "failed")
        /\ (lastOp.from_date_raw \in Dates /\ lastOp.to_date_raw \in Dates) =>
              IF lastOp.from_date_raw > lastOp.to_date_raw
              THEN ~lastOp.ok /\ status = "failed"
              ELSE /\ lastOp.ok
                   /\ from_date = lastOp.from_date_raw /\ to_date = lastOp.to_date_raw

C16_Witness ==
    /\ lastOp.op = "resolve_crawl_range" /\ lastOp.day = 0
    /\ lastOp.from_date_raw = 1 /\ lastOp.to_date_raw = 2
    /\ lastOp.watermark = MaxDate /\ lastOp.source_start_at = Today + 1
    /\ from_date = 1 /\ to_date = 2 /\ status = "running"

(***************************************************************************)
(* C13: the watermark over runs                                            *)
(***************************************************************************)
\* C13: no step of any run of the BOE crawl, with or without --day or a range, completed
\* or terminated, lowers the latest persisted issue date of a source.
C13_WatermarkNeverDecreases ==
    [][\A i \in DOMAIN daily_journals :
          \E j \in DOMAIN daily_journals' :
              /\ daily_journals'[j].source_id = daily_journals[i].source_id
              /\ daily_journals'[j].issue_date >= daily_journals[i].issue_date]_vars

\* a terminated second run persisted an issue older than the watermark
C13_Witness ==
    /\ run = 2 /\ status = "killed" /\ from_date = to_date
    /\ Len(daily_journals) = 2
    /\ daily_journals[2].issue_date < daily_journals[1].issue_date
    /\ max_issue_date(daily_journals, BoeSource) = daily_journals[1].issue_date

(***************************************************************************)
(* FSMRunner.run over a sample handler table                               *)
(***************************************************************************)
EngineStates == {"HOME", "WORK", "DONE"}

\* a sample handler: it returns DONE when no work is left, else it takes one unit of
\* work and names the next state
sample_handler(current, w) ==
    IF w = 0 THEN [next |-> "DONE", work |-> 0]
    ELSE IF current = "HOME"
         THEN [next |-> IF w % 2 = 0 THEN "WORK" ELSE "HOME", work |-> w - 1]
         ELSE [next |-> "HOME", work |-> w - 1]

\* simulate_human_transition: TRUE when it applies the pacing, FALSE when it returns at
\* once because the destination is DONE
simulate_human_transition(from_state, to_state) == to_state # "DONE"

HandlerCall(current) == [kind |-> "handler", state |-> current, next |-> "", paced |-> FALSE]

HookCall(current, next_state) ==
    [kind |-> "hook", state |-> current, next |-> next_state,
     paced |-> simulate_human_transition(current, next_state)]

\* the hook is left out when the destination is the terminal state
HookCallsSkippingTerminal(current, next_state) ==
    IF on_transition /\ next_state # "DONE" THEN <<HookCall(current, next_state)>> ELSE <<>>

\* "if self.on_transition is not None: self.on_transition(context, state, next_state)"
HookCalls(current, next_state) ==
    IF on_transition THEN <<HookCall(current, next_state)>> ELSE <<>>

\* the engine stays in the current state whenever the hook applied its pacing
state_after_hook_veto(current, next_state, hook_calls) ==
    IF hook_calls # <<>> /\ hook_calls[1].paced THEN current ELSE next_state

\* "state = next_state": the hook returns nothing and its call has no part in the
\* assignment
state_after_hook(current, next_state, hook_calls) == next_state

\* one iteration of the loop whose handler and hook return
EngineStep ==
    /\ EngineCanStep(state) /\ state # "DONE"
    /\ state \in handlers
    /\ LET r == sample_handler(state, work)
       IN /\ work' = r.work
          /\ calls' = calls \o <<HandlerCall(state)>> \o HookCalls(state, r.next)
          /\ EngineAdvance(state_after_hook(state, r.next, HookCalls(state, r.next)))
    /\ UNCHANGED <<dbVars, lastOp, connVars, run, from_date, to_date, dogcVars, boeVars,
                   remote, prevRun, handlers, on_transition, error,
                   picked, mainVars, queueVars, walked, written>>

\* the handler is invoked although the mapping has no entry for the state
EngineMissingHandlerAfterCall ==
    /\ EngineCanStep(state) /\ state # "DONE"
    /\ state \notin handlers
    /\ calls' = Append(calls, HandlerCall(state))
    /\ status' = "failed"
    /\ error' = "KeyError"
    /\ UNCHANGED <<dbVars, lastOp, connVars, run, state, steps, from_date, to_date,
                   dogcVars, boeVars, remote, prevRun, handlers, on_transition, work,
                   picked, mainVars, queueVars, walked, written>>

\* "if handler is None: raise KeyError"
EngineMissingHandler ==
    /\ EngineCanStep(state) /\ state # "DONE"
    /\ state \notin handlers
    /\ status' = "failed"
    /\ error' = "KeyError"
    /\ UNCHANGED <<dbVars, lastOp, connVars, run, state, steps, from_date, to_date,
                   dogcVars, boeVars, remote, prevRun, handlers, on_transition, work, calls,
                   picked, mainVars, queueVars, walked, written>>

\* the handler raises and the loop goes on with the same state
EngineHandlerRaisesAndRetries ==
    /\ EngineCanStep(state) /\ state # "DONE"
    /\ state \in handlers
    /\ Len(calls) < 2 * MaxSteps
    /\ calls' = Append(calls, HandlerCall(state))
    /\ error' = "handler"
    /\ UNCHANGED <<dbVars, lastOp, connVars, procVars, dogcVars, boeVars,
                   remote, prevRun, handlers, on_transition, work,
                   picked, mainVars, queueVars, walked, written>>

\* "next_state = handler(context)" raises: run is left by the exception
EngineHandlerRaises ==
    /\ EngineCanStep(state) /\ state # "DONE"
    /\ state \in handlers
    /\ calls' = Append(calls, HandlerCall(state))
    /\ status' = "failed"
    /\ error' = "handler"
    /\ UNCHANGED <<dbVars, lastOp, connVars, run, state, steps, from_date, to_date,
                   dogcVars, boeVars, remote, prevRun, handlers, on_transition, work,
                   picked, mainVars, queueVars, walked, written>>

\* the handler returns and "self.on_transition(context, state, next_state)" raises
EngineHookRaises ==
    /\ EngineCanStep(state) /\ state # "DONE"
    /\ state \in handlers
    /\ on_transition
    /\ LET r == sample_handler(state, work)
       IN /\ work' = r.work
          /\ calls' = calls \o <<HandlerCall(state), HookCall(state, r.next)>>
    /\ status' = "failed"
    /\ error' = "hook"
    /\ UNCHANGED <<dbVars, lastOp, connVars, run, state, steps, from_date, to_date,
                   dogcVars, boeVars, remote, prevRun, handlers, on_transition,
                   picked, mainVars, queueVars, walked, written>>

\* FSMRunner(initial_state = HOME, terminal_state = DONE, ...).run(context) is entered
InitEngine ==
    /\ daily_journals = <<>> /\ notices = <<>> /\ lastOp = NoCall
    /\ ConnIdle /\ DogcIdle /\ BoeIdle
    /\ status = "running" /\ run = 1 /\ state = "HOME" /\ steps = 0
    /\ from_date = 0 /\ to_date = 0
    /\ remote = NoRemote /\ prevRun = NoPrevRun
    /\ handlers \in SUBSET (EngineStates \ {"DONE"})
    /\ on_transition \in BOOLEAN
    /\ work \in 0 .. (MaxSteps + 1)
    /\ calls = <<>> /\ error = ""
    /\ picked = <<>> /\ driver = "none" /\ error_captures = <<>> /\ exit_code = -1
    /\ extracted = <<>> /\ handed = <<>> /\ walked = <<>> /\ written = {}

NextEngine ==
    \/ EngineStep
    \/ EngineMissingHandler
    \/ EngineHandlerRaises
    \/ EngineHookRaises
    \/ EngineBudgetExceeded

SpecEngine == InitEngine /\ [][NextEngine]_vars

(***************************************************************************)
(* C17 .. C20: the engine loop                                             *)
(***************************************************************************)
HandlerCount == Cardinality({i \in DOMAIN calls : calls[i].kind = "handler"})
HookCount == Cardinality({i \in DOMAIN calls : calls[i].kind = "hook"})

\* C17: the step counter never exceeds max_steps; the budget error is raised only with
\* max_steps steps done and a non-terminal current state, and always then; a run that
\* reaches DONE within max_steps steps, the last one included, returns normally.
C17_BudgetFiresAfterMaxSteps ==
    /\ [](/\ steps <= MaxSteps /\ HandlerCount <= MaxSteps
          /\ error = "max_steps" =>
                (status = "failed" /\ steps = MaxSteps /\ state # "DONE"
                 /\ HandlerCount = MaxSteps)
          /\ state = "DONE" => (status = "done" /\ error = ""))
    /\ [][(status = "running" /\ steps = MaxSteps) =>
             (status' = "failed" /\ error' = "max_steps" /\ calls' = calls)]_vars

C17_Witness ==
    status = "done" /\ state = "DONE" /\ steps = MaxSteps /\ HandlerCount = MaxSteps

C17_WitnessBudget ==
    status = "failed" /\ error = "max_steps" /\ steps = MaxSteps /\ state = "HOME"

\* C18: when the current non-terminal state has no handler the run fails with the
\* missing-handler error and invokes neither a handler nor the hook for that step; the
\* error is raised only for a state that is current and has no handler.
C18_MissingHandlerFailsBeforeAnyCall ==
    /\ [](error = "KeyError" =>
            /\ status = "failed" /\ state # "DONE" /\ state \notin handlers
            /\ HandlerCount = steps
            /\ HookCount = IF on_transition THEN steps ELSE 0)
    /\ [][(status = "running" /\ steps < MaxSteps /\ state \notin handlers) =>
             (status' = "failed" /\ error' = "KeyError" /\ calls' = calls)]_vars

C18_Witness ==
    /\ error = "KeyError" /\ state = "WORK" /\ handlers = {"HOME"} /\ steps > 1
    /\ on_transition /\ HandlerCount = steps

C18_WitnessUnusedState ==
    status = "done" /\ handlers = {"HOME"} /\ steps > 1

\* C19 as stated: the hook is never invoked with the terminal state as destination.
C19_Original ==
    \A i \in DOMAIN calls : calls[i].kind = "hook" => calls[i].next # "DONE"

\* C19: with a hook configured every step invokes the handler and then, once and
\* before the state advances, the hook with (current, next), also when next is the
\* terminal state; the hook of the crawlers paces unless next is DONE. With no hook
\* configured only handlers are invoked.
C19_HookOncePerStep ==
    /\ on_transition =>
          /\ Len(calls) = 2 * steps + (IF error = "handler" THEN 1
                                       ELSE IF error = "hook" THEN 2 ELSE 0)
          /\ \A i \in DOMAIN calls :
                IF i % 2 = 1
                THEN calls[i].kind = "handler"
                ELSE /\ calls[i].kind = "hook"
                     /\ calls[i].state = calls[i - 1].state
                     /\ calls[i].paced = (calls[i].next # "DONE")
                     /\ i < Len(calls) => calls[i + 1].state = calls[i].next
          /\ (steps > 0 /\ status \in {"running", "done"}) => calls[Len(calls)].next = state
    /\ ~on_transition =>
          /\ HookCount = 0
          /\ Len(calls) = steps + (IF error = "handler" THEN 1 ELSE 0)

C19_Witness ==
    /\ status = "done" /\ on_transition /\ steps > 1
    /\ calls[Len(calls)].kind = "hook" /\ calls[Len(calls)].next = "DONE"
    /\ ~calls[Len(calls)].paced /\ calls[Len(calls) - 2].paced

\* C20: when a handler or the hook raises, the run has failed: the failing call is the
\* last invocation, the handler of the failing step was invoked once, the state did
\* not advance, and nothing is invoked afterwards.
C20_FailurePropagates ==
    /\ [](error \in {"handler", "hook"} =>
            /\ status = "failed"
            /\ HandlerCount = steps + 1
            /\ calls[Len(calls)].kind = error
            /\ calls[Len(calls)].state = state)
    /\ [][status = "failed" => (calls' = calls /\ status' = "failed")]_vars

C20_Witness ==
    /\ error = "handler" /\ status = "failed" /\ steps > 1
    /\ calls[Len(calls)].kind = "handler" /\ calls[Len(calls)].state = state

C20_WitnessHook ==
    /\ error = "hook" /\ status = "failed" /\ steps > 1
    /\ calls[Len(calls)].kind = "hook" /\ calls[Len(calls)].state = state


\* C25: on every completed step the engine advances to the state the handler returned,
\* with or without the hook and whether or not the hook applied its pacing, and the
\* context after the step is the one the handler left: the hook changes no field.
C25_HookHasNoControlFlowImpact ==
    [][steps' = steps + 1 =>
         /\ state' = sample_handler(state, work).next
         /\ work' = sample_handler(state, work).work
         /\ UNCHANGED <<from_date, to_date, dogcVars, boeVars>>]_vars

\* the engine advanced to WORK after a hook call that applied the pacing
C25_Witness ==
    /\ on_transition /\ status = "running" /\ steps > 1 /\ state = "WORK"
    /\ calls[Len(calls)].kind = "hook" /\ calls[Len(calls)].paced
    /\ calls[Len(calls)].next = "WORK"

(***************************************************************************)
(* C21, C27, C28, C30: the cookie detour and the drain of the DOGC crawl   *)
(***************************************************************************)
\* a step on which the router sends the run to the cookie state
DetourStep == run' = run /\ state # "COOKIE_CONSENT" /\ state' = "COOKIE_CONSENT"
\* a step on which the cookie state hands the run back
ResumeStep == run' = run /\ state = "COOKIE_CONSENT" /\ state' # "COOKIE_CONSENT"

\* C21 as stated: from every designated state X, HOME included, the detour records X,
\* the cookie state resumes X and leaves the register empty.
C21_Original ==
    /\ [](state # "COOKIE_CONSENT" => resume_state = "None")
    /\ [][DetourStep => resume_state' = state]_vars
    /\ [][ResumeStep => (state' = resume_state /\ resume_state' = "None")]_vars

\* C21: from HOME the detour records NAVIGATE_TO_START_MONTH, from every other
\* designated state X it records X; the cookie state resumes the recorded state and
\* leaves the register empty, so the register is empty outside the cookie state.
C21_DetourResumesRecordedState ==
    /\ [](state # "COOKIE_CONSENT" => resume_state = "None")
    /\ [][DetourStep =>
             resume_state' = (IF state = "HOME" THEN "NAVIGATE_TO_START_MONTH" ELSE state)]_vars
    /\ [][ResumeStep => (state' = resume_state /\ resume_state' = "None")]_vars

\* a notice page was re-entered after the one detour of the run
C21_Witness ==
    /\ status = "running" /\ obstructions = 1 /\ state = "OPEN_NOTICE"
    /\ resume_state = "None" /\ current_notice_candidate # <<>> /\ Len(notices) = 1

\* the detour out of HOME is on its way to NAVIGATE_TO_START_MONTH
C21_WitnessHome ==
    /\ state = "COOKIE_CONSENT" /\ steps = 1 /\ resume_state = "NAVIGATE_TO_START_MONTH"

\* C30: when the cookie state finds no accept button the run has failed in the cookie
\* state: no next state was returned, no step was counted and the register still
\* holds the state the detour recorded.
C30_MissingButtonFailsRun ==
    /\ [](error = "cookie_button_not_found" =>
            (status = "failed" /\ state = "COOKIE_CONSENT" /\ resume_state # "None"))
    /\ [][(error # "cookie_button_not_found" /\ error' = "cookie_button_not_found") =>
             (state' = state /\ steps' = steps /\ resume_state' = resume_state)]_vars

\* the run failed on the detour taken while a notice was open
C30_Witness ==
    /\ error = "cookie_button_not_found" /\ status = "failed"
    /\ state = "COOKIE_CONSENT" /\ resume_state = "OPEN_NOTICE"

\* how many times the drain picked issue row i in this run
PickCount(i) == Cardinality({k \in DOMAIN picked : picked[k] = i})

\* DOGC issue rows without a notice and with a url
ZeroNoticeIssues ==
    {i \in DOMAIN daily_journals :
        /\ daily_journals[i].source_id = DogcSource
        /\ daily_journals[i].url # ""
        /\ NoticeCountOf(i) = 0}

\* C27: within one run the drain picks no issue id more than once, and the ids it
\* picked are the attempted set.
C27_NoIssuePickedTwice ==
    /\ \A i \in DOMAIN daily_journals : PickCount(i) <= 1
    /\ attempted_daily_journal_ids = {picked[k] : k \in DOMAIN picked}

\* the drain ended after two picks, one of an issue that still has no notice
C27_Witness ==
    /\ status = "done" /\ state = "DONE" /\ Len(picked) = 2
    /\ \E k \in DOMAIN picked : picked[k] \in ZeroNoticeIssues

\* an issue without notices was opened twice around a detour and picked once
C27_WitnessDetour ==
    /\ status = "done" /\ obstructions = 1 /\ Len(picked) = 1
    /\ picked[1] \in ZeroNoticeIssues

\* C28: in every run, an issue with no persisted notice and a url is picked exactly
\* once by the time the drain ends; while the drain is under way it has been picked
\* once or is still selectable (not in the attempted set).
C28_ZeroNoticeIssueSelectedEachRun ==
    \A i \in ZeroNoticeIssues :
        /\ (status = "done" /\ state = "DONE") => PickCount(i) = 1
        /\ (status = "running" /\ InDrain) =>
               (PickCount(i) = 1 \/ i \notin attempted_daily_journal_ids)

\* the second run ended its drain after picking an issue that the first, completed
\* run had left without notices
C28_Witness ==
    /\ run = 2 /\ status = "done" /\ state = "DONE"
    /\ prevRun.completed /\ prevRun.journals = Len(daily_journals)
    /\ \E i \in ZeroNoticeIssues : PickCount(i) = 1

(***************************************************************************)
(* C22, C29: the router and the cookie state on every value of the         *)
(* register                                                                *)
(***************************************************************************)
DogcStates == {"HOME", "COOKIE_CONSENT", "NAVIGATE_TO_START_MONTH", "PROCESS_MONTH",
               "PICK_PENDING_DAILY_JOURNAL", "OPEN_DAILY_JOURNAL", "PICK_NOTICE_LINK",
               "OPEN_NOTICE", "DONE"}
\* the states whose handlers call maybe_route_to_cookie_state
DogcProbingStates == DogcStates \ {"COOKIE_CONSENT", "DONE"}

\* the handler of the current state calls maybe_route_to_cookie_state and the accept
\* button is on the page; state_home passes NAVIGATE_TO_START_MONTH, the others
\* their own state
RouterFindsButton ==
    /\ status = "running" /\ state \in DogcProbingStates /\ steps < MaxSteps
    /\ DogcDetour(IF state = "HOME" THEN "NAVIGATE_TO_START_MONTH" ELSE state)
    /\ UNCHANGED <<dbVars, lastOp, connVars, run, from_date, to_date,
                   attempted_daily_journal_ids, current_daily_journal,
                   pending_notice_candidates, current_notice_candidate, visible_month,
                   boeVars, remote, prevRun, engVars, picked, mainVars, queueVars, walked, written>>

\* a context in any state with any value of resume_state; lastOp keeps the values
\* the behaviour started from
InitRouter ==
    /\ daily_journals = <<>> /\ notices = <<>>
    /\ ConnIdle /\ BoeIdle /\ EngIdle
    /\ status = "running" /\ run = 1 /\ steps = 0
    /\ state \in DogcStates \ {"DONE"}
    /\ resume_state \in (DogcStates \ {"COOKIE_CONSENT", "DONE"}) \cup {"None"}
    /\ lastOp = [op |-> "context", state |-> state, resume_state |-> resume_state]
    /\ from_date = SourceStartAt /\ to_date = Today
    /\ attempted_daily_journal_ids = {} /\ current_daily_journal = <<>>
    /\ pending_notice_candidates = <<>> /\ current_notice_candidate = <<>>
    /\ visible_month = 0 /\ obstructions = 0
    /\ remote = NoRemote /\ prevRun = NoPrevRun

NextRouter ==
    \/ RouterFindsButton
    \/ DogcStateCookieConsent

SpecRouter == InitRouter /\ [][NextRouter]_vars

C29_PopOrDefault ==
    /\ [][(state = "COOKIE_CONSENT" /\ steps' = steps + 1) =>
             /\ resume_state' = "None"
             /\ state' = (IF resume_state = "None" THEN "NAVIGATE_TO_START_MONTH"
                          ELSE resume_state)]_vars
    /\ [][(state = "COOKIE_CONSENT" /\ status' = "failed") =>
             error' = "cookie_button_not_found"]_vars

\* the cookie state was entered with an empty register and returned the default
C29_Witness ==
    /\ lastOp.state = "COOKIE_CONSENT" /\ lastOp.resume_state = "None"
    /\ steps = 1 /\ status = "running"
    /\ state = "NAVIGATE_TO_START_MONTH" /\ resume_state = "None"

\* the cookie state popped the recorded state
C29_WitnessPop ==
    /\ lastOp.state = "COOKIE_CONSENT" /\ lastOp.resume_state = "OPEN_NOTICE"
    /\ steps = 1 /\ status = "running"
    /\ state = "OPEN_NOTICE" /\ resume_state = "None"

(***************************************************************************)
(* C26: the pick step of the drain on every small content of the tables    *)
(***************************************************************************)
\* the tables that at most n upsert_daily_journal calls leave behind; a DOGC url
\* may be the empty string
RECURSIVE IssueTables(_)
IssueTables(n) ==
    IF n = 0 THEN {<<>>}
    ELSE LET prev == IssueTables(n - 1)
         IN prev \cup {upsert_daily_journal(t, sd[1], sd[2], u, "d1") :
                          t \in prev, sd \in SourceIds \X Dates, u \in IssueUrls}

\* one notice persisted for each issue id of S, in ascending id order
RECURSIVE NoticesFor(_)
NoticesFor(S) ==
    IF S = {} THEN <<>>
    ELSE LET i == CHOOSE x \in S : \A y \in S : y <= x
         IN upsert_notice(NoticesFor(S \ {i}), i, "a", "u", "c1")

\* a run at the start of its drain; the remote site lists no notice for any issue
InitPick ==
    /\ daily_journals \in IssueTables(MaxIssueRows)
    /\ notices \in {NoticesFor(S) : S \in SUBSET DOMAIN daily_journals}
    /\ lastOp = NoCall
    /\ ConnIdle /\ DogcIdle /\ BoeIdle /\ EngIdle
    /\ status = "running" /\ run = 1 /\ state = "PICK_PENDING_DAILY_JOURNAL" /\ steps = 0
    /\ from_date = SourceStartAt /\ to_date = Today
    /\ remote = NoRemote /\ prevRun = NoPrevRun

NextPick ==
    \/ DogcStatePickPendingDailyJournal
    \/ DogcStateOpenDailyJournal
    \/ DogcStateCookieConsent

SpecPick == InitPick /\ [][NextPick]_vars

\* a step of the pick handler that is not a detour
PickStep ==
    /\ state = "PICK_PENDING_DAILY_JOURNAL" /\ steps' = steps + 1
    /\ state' # "COOKIE_CONSENT"

\* the issues the pick may select: DOGC rows with a url and no notice, not attempted
PickCandidates == ZeroNoticeIssues \ attempted_daily_journal_ids

\* C26: the pick step selects, among the DOGC issues with no notice, a non-empty url
\* and an id outside the attempted set, the one with the smallest (issue_date, id),
\* and returns the terminal state exactly when there is none.
C26_PickSelectsEarliestPending ==
    [][PickStep =>
         IF PickCandidates = {}
         THEN state' = "DONE"
         ELSE /\ state' = "OPEN_DAILY_JOURNAL"
              /\ current_daily_journal'[1].id \in PickCandidates
              /\ \A j \in PickCandidates :
                    LET i == current_daily_journal'[1].id
                    IN \/ daily_journals[i].issue_date < daily_journals[j].issue_date
                       \/ /\ daily_journals[i].issue_date = daily_journals[j].issue_date
                          /\ i <= j]_vars

\* the row with the later id and the earlier date was picked first
C26_Witness ==
    /\ Len(daily_journals) = 2 /\ picked = <<2>> /\ state = "OPEN_DAILY_JOURNAL"
    /\ daily_journals[1].source_id = DogcSource /\ daily_journals[1].url # ""
    /\ NoticeCountOf(1) = 0
    /\ daily_journals[2].issue_date < daily_journals[1].issue_date

\* the drain ended with an issue without url and without notices never picked
C26_WitnessEmptyUrl ==
    /\ status = "done" /\ Len(picked) = 1
    /\ \E i \in DOMAIN daily_journals :
          /\ daily_journals[i].source_id = DogcSource /\ daily_journals[i].url = ""
          /\ NoticeCountOf(i) = 0 /\ i \notin attempted_daily_journal_ids

(***************************************************************************)
(* C23, C24: main of the BOE crawler, from the command line to the exit    *)
(* code                                                                    *)
(***************************************************************************)
\* ArtifactWriter.capture: it returns the paths it wrote, or lets the exception of
\* save_screenshot / write_text through
artifact_capture(writable) == IF writable THEN "saved" ELSE "raised"

\* main up to fsm.run: connect and read the source row, resolve the window, return 0
\* on an empty window, else open the browser session and enter the engine
MainStart(source_known, day, from_date_raw, to_date_raw, driver_ok) ==
    /\ status = "idle" /\ exit_code = -1
    /\ run' = run + 1
    /\ LET w == resolve_crawl_range(daily_journals, BoeSource, SourceStartAt,
                                    day, from_date_raw, to_date_raw)
       IN IF ~source_known \/ ~w.ok
          THEN /\ status' = "failed" /\ error' = "config"
               /\ UNCHANGED <<state, steps, from_date, to_date, driver, exit_code>>
          ELSE /\ from_date' = w.from_date /\ to_date' = w.to_date
               /\ IF w.from_date > w.to_date
                  THEN /\ status' = "done" /\ exit_code' = 0
                       /\ UNCHANGED <<state, steps, driver, error>>
                  ELSE IF ~driver_ok
                  THEN /\ status' = "failed" /\ error' = "driver"
                       /\ UNCHANGED <<state, steps, driver, exit_code>>
                  ELSE /\ status' = "running" /\ state' = "HOME" /\ steps' = 0
                       /\ driver' = "open"
                       /\ UNCHANGED <<error, exit_code>>
    /\ UNCHANGED <<dbVars, lastOp, connVars, dogcVars, boeVars, remote, prevRun, handlers,
                   on_transition, work, calls, picked, error_captures, queueVars, walked, written>>

\* state_home when context.artifacts.capture raises: the handler has no except clause
BoeStateHomeCaptureRaises ==
    /\ EngineCanStep("HOME")
    /\ artifact_capture(FALSE) = "raised"
    /\ status' = "failed" /\ error' = "capture"
    /\ UNCHANGED <<dbVars, lastOp, connVars, run, state, steps, from_date, to_date, dogcVars,
                   boeVars, remote, prevRun, handlers, on_transition, work, calls, picked,
                   mainVars, queueVars, walked, written>>

\* any handler raises for another reason (a wait that times out, a rejected write)
BoeHandlerRaises ==
    /\ status = "running" /\ state # "DONE" /\ steps < MaxSteps
    /\ status' = "failed" /\ error' = "handler"
    /\ UNCHANGED <<dbVars, lastOp, connVars, run, state, steps, from_date, to_date, dogcVars,
                   boeVars, remote, prevRun, handlers, on_transition, work, calls, picked,
                   mainVars, queueVars, walked, written>>

\* "final_state = fsm.run(context) ... return 0", then the finally clause
MainReturn ==
    /\ status = "done" /\ state = "DONE" /\ exit_code = -1
    /\ exit_code' = 0
    /\ driver' = "quit"
    /\ UNCHANGED <<dbVars, lastOp, connVars, procVars, dogcVars, boeVars, remote, prevRun,
                   engVars, picked, error_captures, queueVars, walked, written>>

\* the exit code tells whether the error capture could be written
MainExceptExitFollowsCapture(writable) ==
    /\ status = "failed" /\ exit_code = -1
    /\ error_captures' = IF driver = "open"
                         THEN Append(error_captures, artifact_capture(writable))
                         ELSE error_captures
    /\ exit_code' = IF driver = "open" /\ artifact_capture(writable) = "raised" THEN 2 ELSE 1
    /\ driver' = IF driver = "open" THEN "quit" ELSE driver
    /\ UNCHANGED <<dbVars, lastOp, connVars, procVars, dogcVars, boeVars, remote, prevRun,
                   engVars, picked, queueVars, walked, written>>

\* the error capture is attempted without a browser session too
MainExceptAlwaysCaptures(writable) ==
    /\ status = "failed" /\ exit_code = -1
    /\ error_captures' = Append(error_captures,
                                IF driver = "open" THEN artifact_capture(writable) ELSE "raised")
    /\ exit_code' = 1
    /\ driver' = IF driver = "open" THEN "quit" ELSE driver
    /\ UNCHANGED <<dbVars, lastOp, connVars, procVars, dogcVars, boeVars, remote, prevRun,
                   engVars, picked, queueVars, walked, written>>

\* "except Exception": log; with a session, one capture whose own exception is
\* logged and dropped; return 1; then the finally clause
MainExcept(writable) ==
    /\ status = "failed" /\ exit_code = -1
    /\ error_captures' = IF driver = "open"
                         THEN Append(error_captures, artifact_capture(writable))
                         ELSE error_captures
    /\ exit_code' = 1
    /\ driver' = IF driver = "open" THEN "quit" ELSE driver
    /\ UNCHANGED <<dbVars, lastOp, connVars, procVars, dogcVars, boeVars, remote, prevRun,
                   engVars, picked, queueVars, walked, written>>

\* no issue persisted yet, or the issue of today already persisted
InitMain ==
    /\ daily_journals \in {<<>>, upsert_daily_journal(<<>>, BoeSource, Today,
                                                     boe_daily_journal_url(Today), "d1")}
    /\ notices = <<>> /\ lastOp = NoCall
    /\ ConnIdle /\ ProcIdle /\ DogcIdle /\ BoeIdle /\ EngIdle
    /\ remote \in {[dogc_issues |-> {}, boe_items |-> items] : items \in BoeRemotes}
    /\ prevRun = NoPrevRun

NextMain ==
    \/ \E args \in BoeCommandLines, source_known \in BOOLEAN, driver_ok \in BOOLEAN :
          MainStart(source_known, args[1], args[2], args[3], driver_ok)
    \/ BoeStateHome
    \/ BoeStateHomeCaptureRaises
    \/ BoeStatePrepareSearch
    \/ BoeStateParseResultsPage
    \/ BoeStateProcessResultItem
    \/ BoeStateOpenNotice
    \/ BoeStateOpenNextPage
    \/ BoeHandlerRaises
    \/ MainReturn
    \/ \E writable \in BOOLEAN : MainExcept(writable)

SpecMain == InitMain /\ [][NextMain]_vars

\* C23 as stated: every exit with code 1 comes after exactly one capture attempt.
C23_Original ==
    exit_code = 1 => Len(error_captures) = 1

\* C23: the process exits 0 exactly when the engine reached DONE or the window was
\* empty, and in the second case no session was opened and no handler ran; it exits 1
\* exactly after a failure; the error capture is attempted once when the failure
\* came with a browser session open and not at all when it came before (source
\* lookup, window resolution, start of the browser); the result of the attempt has
\* no effect on the exit code.
C23_ExitCodeAndErrorCapture ==
    /\ exit_code \in {-1, 0, 1}
    /\ exit_code # -1 => driver # "open"
    /\ exit_code = 0 =>
          /\ status = "done" /\ error = "" /\ error_captures = <<>>
          /\ \/ state = "DONE" /\ driver = "quit"
             \/ /\ state # "DONE" /\ from_date > to_date
                /\ driver = "none" /\ steps = 0
    /\ status = "done" => (state = "DONE" \/ exit_code = 0)
    /\ exit_code = 1 =>
          /\ status = "failed"
          /\ error \in {"config", "driver", "capture", "handler"}
          /\ error \in {"config", "driver"} => (driver = "none" /\ error_captures = <<>>)
          /\ error \in {"capture", "handler"} =>
                (driver = "quit" /\ Len(error_captures) = 1)
    /\ exit_code = -1 => error_captures = <<>>

\* the run failed inside the engine and the error capture failed too
C23_Witness ==
    /\ exit_code = 1 /\ error = "handler" /\ steps > 1 /\ error_captures = <<"raised">>

\* the window was empty
C23_WitnessEmptyWindow ==
    /\ exit_code = 0 /\ driver = "none" /\ from_date > to_date /\ state = "HOME"

\* the window could not be resolved
C23_WitnessConfig ==
    /\ exit_code = 1 /\ error = "config" /\ error_captures = <<>>

\* C24 as stated: a capture that fails inside a state handler leaves the run going.
C24_HandlerCaptureFailureDoesNotAbort ==
    error = "capture" => (status = "running" /\ exit_code # 1)

(***************************************************************************)
(* C31..C39: queues, calendar walk and detours of the two crawls           *)
(***************************************************************************)
\* the notices the summary page of issue row i lists, one per href
ListedNoticesOf(i) ==
    extract_notice_candidates_from_daily_journal(remote.dogc_issues, daily_journals[i].url)

\* C31: a step that detours to the cookie state, and the step of the cookie state,
\* change neither the queue of notice candidates, nor the current issue, nor the
\* current notice, nor the attempted set, nor the tables; so when a drain ends every
\* issue it picked has each listed notice persisted, once.
C31_DetourLeavesSessionAndTables ==
    /\ [][(DetourStep \/ (run' = run /\ state = "COOKIE_CONSENT")) =>
             UNCHANGED <<pending_notice_candidates, current_daily_journal,
                         current_notice_candidate, attempted_daily_journal_ids, picked,
                         daily_journals, notices>>]_vars
    /\ [](status = "done" /\ state = "DONE" =>
            \A k \in DOMAIN picked :
                /\ UnpersistedNoticesOf(picked[k]) = {}
                /\ NoticeCountOf(picked[k]) = Len(ListedNoticesOf(picked[k])))

\* a drain with a detour ended with both notices of the picked issue persisted
C31_Witness ==
    /\ status = "done" /\ state = "DONE" /\ obstructions = 1
    /\ Len(picked) = 1 /\ NoticeCountOf(picked[1]) = 2

\* the detour out of PICK_NOTICE_LINK is under way with the queue still full
C31_WitnessQueue ==
    /\ state = "COOKIE_CONSENT" /\ resume_state = "PICK_NOTICE_LINK"
    /\ Len(pending_notice_candidates) = 2 /\ current_daily_journal # <<>>

\* the handlers main registers for each crawler
DogcHandlers == DogcStates \ {"DONE"}
BoeHandlers == {"HOME", "PREPARE_SEARCH", "PARSE_RESULTS_PAGE", "PROCESS_RESULT_ITEM",
                "OPEN_NOTICE", "OPEN_NEXT_PAGE"}

\* either crawler, told apart by the handlers of its engine: the DOGC crawler as in
\* SpecDogc, the BOE crawler as in SpecBoe
InitCrawls ==
    /\ notices = <<>> /\ lastOp = NoCall
    /\ ConnIdle /\ ProcIdle /\ DogcIdle /\ BoeIdle
    /\ on_transition = FALSE /\ work = 0 /\ calls = <<>> /\ error = ""
    /\ picked = <<>> /\ driver = "none" /\ error_captures = <<>> /\ exit_code = -1
    /\ extracted = <<>> /\ handed = <<>> /\ walked = <<>> /\ written = {}
    /\ prevRun = NoPrevRun
    /\ \/ /\ handlers = DogcHandlers
          /\ daily_journals = upsert_daily_journal(<<>>, BoeSource, 1,
                                                   boe_daily_journal_url(1), "d1")
          /\ remote \in {[dogc_issues |-> p, boe_items |-> <<>>] : p \in SUBSET Dates}
       \/ /\ handlers = BoeHandlers
          /\ daily_journals = <<>>
          /\ remote \in {[dogc_issues |-> {}, boe_items |-> items] : items \in BoeRemotes}

NextCrawls ==
    \/ handlers = DogcHandlers /\ NextDogc
    \/ handlers = BoeHandlers /\ NextBoe

SpecCrawls == InitCrawls /\ [][NextCrawls]_vars

\* is the run the BOE crawl / the DOGC crawl
IsBoeRun == handlers = BoeHandlers
PendingQueue == IF IsBoeRun THEN pending_results ELSE pending_notice_candidates

\* C32: the items handed to the detail state since the last refill, followed by
\* the items still queued, are the extracted items in extraction order; the queue
\* is empty whenever the run is about to refill it and when the run is done, so
\* every extracted item was handed over exactly once, in order.
C32_QueueIsFifoAndDrained ==
    /\ extracted = handed \o PendingQueue
    /\ (status = "running" /\ state \in {"PARSE_RESULTS_PAGE", "OPEN_NEXT_PAGE",
                                         "PICK_PENDING_DAILY_JOURNAL", "OPEN_DAILY_JOURNAL"}) =>
          (PendingQueue = <<>> /\ handed = extracted)
    /\ (status = "done" /\ state = "DONE") => (PendingQueue = <<>> /\ handed = extracted)

\* a BOE page of two items was handed over in page order
C32_Witness ==
    /\ IsBoeRun /\ status = "done" /\ state = "DONE"
    /\ Len(extracted) = 2 /\ extracted[1] # extracted[2] /\ handed = extracted

\* a DOGC issue page of two notices was handed over in page order
C32_WitnessDogc ==
    /\ ~IsBoeRun /\ status = "running" /\ state = "PICK_PENDING_DAILY_JOURNAL"
    /\ Len(extracted) = 2 /\ extracted[1] # extracted[2] /\ handed = extracted

\* C34: while a DOGC run is under way the register holds a state exactly when the
\* engine is in the cookie state; a detour is taken only with the register empty
\* and the cookie state hands the run back only with the register occupied, so the
\* register is never overwritten and the fall back to the default is never taken.
C34_RegisterOccupiedOnlyInCookieState ==
    /\ [](status = "running" => (resume_state # "None" <=> state = "COOKIE_CONSENT"))
    /\ [][DetourStep => resume_state = "None"]_vars
    /\ [][ResumeStep => resume_state # "None"]_vars

\* the detour out of PROCESS_MONTH is under way
C34_Witness ==
    /\ status = "running" /\ state = "COOKIE_CONSENT" /\ resume_state = "PROCESS_MONTH"

\* the drain goes on after a detour, with the register empty again
C34_WitnessAfter ==
    /\ status = "running" /\ obstructions = 1 /\ state = "PICK_NOTICE_LINK"
    /\ resume_state = "None" /\ picked # <<>>

\* the state a detour under way will resume, else the current state
StateOrResumed == IF state = "COOKIE_CONSENT" THEN resume_state ELSE state

\* C35: while a run is under way, in OPEN_NOTICE the current item is set (BOE:
\* current_result; DOGC: current_notice_candidate), and in the DOGC states
\* OPEN_DAILY_JOURNAL, PICK_NOTICE_LINK and OPEN_NOTICE the current issue is set,
\* also while a detour out of one of them is under way.
C35_CurrentItemIsSet ==
    status = "running" =>
        /\ (IsBoeRun /\ state = "OPEN_NOTICE") => current_result # <<>>
        /\ (~IsBoeRun /\ StateOrResumed = "OPEN_NOTICE") => current_notice_candidate # <<>>
        /\ (~IsBoeRun /\ StateOrResumed \in {"OPEN_DAILY_JOURNAL", "PICK_NOTICE_LINK",
                                              "OPEN_NOTICE"}) =>
              current_daily_journal # <<>>

\* the DOGC run is back in OPEN_NOTICE after a detour, with issue and notice set
C35_Witness ==
    /\ ~IsBoeRun /\ status = "running" /\ state = "OPEN_NOTICE" /\ obstructions = 1
    /\ current_notice_candidate # <<>> /\ current_daily_journal # <<>>
    /\ handed # <<>>

\* the BOE run is in OPEN_NOTICE with the item popped from the queue
C35_WitnessBoe ==
    /\ IsBoeRun /\ status = "running" /\ state = "OPEN_NOTICE"
    /\ current_result # <<>> /\ Len(handed) = 2

\* C36: a BOE run is in PARSE_RESULTS_PAGE only with an empty queue, in
\* OPEN_NEXT_PAGE only with an empty queue and no current item, and done in DONE
\* only with an empty queue, no current item and no next-page url, every item of
\* the last page having been handed to OPEN_NOTICE.
C36_NoItemDiscarded ==
    /\ (status = "running" /\ state = "PARSE_RESULTS_PAGE") =>
          (pending_results = <<>> /\ current_result = <<>>)
    /\ (status = "running" /\ state = "OPEN_NEXT_PAGE") =>
          (pending_results = <<>> /\ current_result = <<>> /\ next_page_url # 0)
    /\ (status = "done" /\ state = "DONE") =>
          /\ pending_results = <<>> /\ current_result = <<>> /\ next_page_url = 0
          /\ handed = extracted

\* the second page is about to be parsed after both items of the first were handed over
C36_Witness ==
    /\ status = "running" /\ state = "PARSE_RESULTS_PAGE" /\ page = 2
    /\ Len(handed) = 2 /\ pending_results = <<>>

\* a run of two pages is done
C36_WitnessDone ==
    /\ status = "done" /\ state = "DONE" /\ page = 2 /\ handed # <<>>
    /\ pending_results = <<>> /\ next_page_url = 0

\* the rows of the issue table a step inserted or changed
TouchedIssueRows ==
    {i \in DOMAIN daily_journals' :
        i \notin DOMAIN daily_journals \/ daily_journals'[i] # daily_journals[i]}

\* C37: every issue date a run (BOE or DOGC) passes to upsert_daily_journal lies in
\* the run's window, from_date <= issue_date <= to_date, and a step of a run
\* inserts or changes only issue rows of such dates.
C37_WrittenIssuesInWindow ==
    /\ [](\A d \in written : from_date <= d /\ d <= to_date)
    /\ [][run' = run =>
            \A i \in TouchedIssueRows :
               /\ daily_journals'[i].issue_date \in written'
               /\ from_date <= daily_journals'[i].issue_date
               /\ daily_journals'[i].issue_date <= to_date]_vars

\* a DOGC run processed a month that shows an issue outside the window and wrote
\* an issue of that month
C37_Witness ==
    /\ ~IsBoeRun /\ status = "done" /\ written # {}
    /\ \E d \in remote.dogc_issues :
          /\ d < from_date \/ d > to_date
          /\ DateMonthIndex(d) \in {walked[k] : k \in DOMAIN walked}
          /\ \E w \in written : DateMonthIndex(w) = DateMonthIndex(d)

\* a BOE run parsed a page listing a result outside the window and wrote an issue
C37_WitnessBoe ==
    /\ IsBoeRun /\ status = "done" /\ state = "DONE" /\ written # {}
    /\ \E n \in DOMAIN remote.boe_items :
          remote.boe_items[n].issue_date < from_date
          \/ remote.boe_items[n].issue_date > to_date

(***************************************************************************)
(* C38: the drain under the engine's loop, no handler failing              *)
(***************************************************************************)
\* a run that has just finished its calendar walk: the issues the site shows
\* inside the window are in the table, none has a notice yet
InitDrain ==
    /\ remote \in {[dogc_issues |-> p, boe_items |-> <<>>] : p \in SUBSET Dates}
    /\ from_date \in {SourceStartAt, SourceStartAt + 1} /\ to_date = Today
    /\ daily_journals =
          upsert_issues_in_order(
              upsert_daily_journal(<<>>, BoeSource, 1, boe_daily_journal_url(1), "d1"),
              DogcSource,
              {d \in remote.dogc_issues : from_date <= d /\ d <= to_date})
    /\ notices = <<>> /\ lastOp = NoCall
    /\ ConnIdle /\ DogcIdle /\ BoeIdle /\ EngIdle
    /\ status = "running" /\ run = 1 /\ state = "PICK_PENDING_DAILY_JOURNAL" /\ steps = 0
    /\ prevRun = NoPrevRun

\* state_cookie_consent finds the accept button
DrainCookieConsentClicks == DogcStateCookieConsent /\ status' # "failed"

\* "while True: ... handler(current)": the loop of FSMRunner.run over the drain's
\* handlers
NextDrain ==
    \/ DogcStatePickPendingDailyJournal
    \/ DogcStateOpenDailyJournal
    \/ DogcStatePickNoticeLink
    \/ DogcStateOpenNotice
    \/ DrainCookieConsentClicks
    \/ EngineBudgetExceeded

\* the loop runs the next handler as long as the run has not ended
SpecDrain == InitDrain /\ [][NextDrain]_vars /\ WF_vars(NextDrain)

\* the DOGC rows of the issue table
DogcIssueIds == {i \in DOMAIN daily_journals : daily_journals[i].source_id = DogcSource}

\* C38: in the DOGC drain every pick adds an issue id to the attempted set that was
\* not in it, so a run picks at most as many times as the source has issues; and
\* when no handler fails the run reaches DONE unless the step budget is used up.
C38_DrainTerminates ==
    /\ [](Len(picked) <= Cardinality(DogcIssueIds)
          /\ Len(picked) = Cardinality(attempted_daily_journal_ids))
    /\ [][(PickStep /\ state' = "OPEN_DAILY_JOURNAL") =>
            /\ attempted_daily_journal_ids # attempted_daily_journal_ids'
            /\ attempted_daily_journal_ids \subseteq attempted_daily_journal_ids'
            /\ attempted_daily_journal_ids' \subseteq DogcIssueIds]_vars
    /\ (status = "running") ~> ((status = "done" /\ state = "DONE") \/ steps >= MaxSteps)

\* a drain picked every one of two issues and ended in DONE within the budget
C38_Witness ==
    /\ status = "done" /\ state = "DONE" /\ steps < MaxSteps
    /\ Len(picked) = 2 /\ Cardinality(DogcIssueIds) = 2

\* a drain used up the step budget
C38_WitnessBudget ==
    /\ status = "failed" /\ error = "max_steps" /\ InDrain

(***************************************************************************)
(* C39: a run whose every probe finds the accept button                    *)
(***************************************************************************)
\* state_home: the page is loaded, then the probe finds the button
BannerStateHome ==
    /\ EngineCanStep("HOME")
    /\ \E shown \in MonthIndexes : visible_month' = shown
    /\ maybe_route_to_cookie_state("NAVIGATE_TO_START_MONTH")
    /\ UNCHANGED <<dbVars, lastOp, connVars, run, from_date, to_date,
                   attempted_daily_journal_ids, current_daily_journal,
                   pending_notice_candidates, current_notice_candidate,
                   boeVars, remote, prevRun, engVars, picked, mainVars, queueVars,
                   walked, written>>

\* state_navigate_to_start_month: "if cookie_interrupt is not None: return
\* cookie_interrupt", before the calendar is read
BannerStateNavigateToStartMonth ==
    /\ EngineCanStep("NAVIGATE_TO_START_MONTH")
    /\ maybe_route_to_cookie_state("NAVIGATE_TO_START_MONTH")
    /\ UNCHANGED <<dbVars, lastOp, connVars, run, from_date, to_date,
                   attempted_daily_journal_ids, current_daily_journal,
                   pending_notice_candidates, current_notice_candidate, visible_month,
                   boeVars, remote, prevRun, engVars, picked, mainVars, queueVars,
                   walked, written>>

\* a run about to open the home page, on any small content of the site
InitBanner ==
    /\ daily_journals = upsert_daily_journal(<<>>, BoeSource, 1, boe_daily_journal_url(1), "d1")
    /\ notices = <<>> /\ lastOp = NoCall
    /\ ConnIdle /\ DogcIdle /\ BoeIdle /\ EngIdle
    /\ status = "running" /\ run = 1 /\ state = "HOME" /\ steps = 0
    /\ from_date \in {SourceStartAt, SourceStartAt + 1} /\ to_date = Today
    /\ remote \in {[dogc_issues |-> p, boe_items |-> <<>>] : p \in SUBSET Dates}
    /\ prevRun = NoPrevRun

NextBanner ==
    \/ BannerStateHome
    \/ BannerStateNavigateToStartMonth
    \/ DrainCookieConsentClicks
    \/ EngineBudgetExceeded

\* the loop of FSMRunner.run runs the next handler as long as the run has not ended
SpecBanner == InitBanner /\ [][NextBanner]_vars /\ WF_vars(NextBanner)

\* C39: when every probe finds the accept button, the DOGC run never reaches DONE
\* and writes no row: after the home step it is in COOKIE_CONSENT after every odd
\* step and back in NAVIGATE_TO_START_MONTH after every even one, the register
\* naming that state while in COOKIE_CONSENT, until it fails with the step-budget
\* error after MaxSteps steps.
C39_BannerNeverCleared ==
    /\ [](/\ state # "DONE" /\ status # "done"
          /\ notices = <<>> /\ written = {} /\ picked = <<>> /\ walked = <<>>
          /\ (steps = 0 => state = "HOME")
          /\ (steps > 0 /\ steps % 2 = 1 =>
                 state = "COOKIE_CONSENT" /\ resume_state = "NAVIGATE_TO_START_MONTH")
          /\ (steps > 0 /\ steps % 2 = 0 =>
                 state = "NAVIGATE_TO_START_MONTH" /\ resume_state = "None")
          /\ (status = "failed" => error = "max_steps" /\ steps = MaxSteps))
    /\ [][UNCHANGED dbVars]_vars
    /\ <>(status = "failed" /\ error = "max_steps")

\* the run failed with the step-budget error after going through the cookie state
\* more than once
C39_Witness ==
    /\ status = "failed" /\ error = "max_steps" /\ steps = MaxSteps
    /\ obstructions > 2 /\ state \in {"COOKIE_CONSENT", "NAVIGATE_TO_START_MONTH"}

(***************************************************************************)
(* C33: the calendar walk from any shown month                             *)
(***************************************************************************)
\* the months the calendar control can show: those of the dates and the one after
ShownMonths == 1 .. (DateMonthIndex(Today) + 1)

\* months a .. b in ascending order
RECURSIVE MonthsFromTo(_, _)
MonthsFromTo(a, b) == IF a > b THEN <<>> ELSE <<a>> \o MonthsFromTo(a + 1, b)

\* a run at the start of its backward walk, or already in PROCESS_MONTH, with any
\* month shown and any start date; lastOp keeps the values the behaviour started from
InitCalendar ==
    /\ daily_journals = upsert_daily_journal(<<>>, BoeSource, 1, boe_daily_journal_url(1), "d1")
    /\ notices = <<>>
    /\ ConnIdle /\ BoeIdle /\ EngIdle
    /\ status = "running" /\ run = 1 /\ steps = 0
    /\ state \in {"NAVIGATE_TO_START_MONTH", "PROCESS_MONTH"}
    /\ from_date \in Dates /\ to_date = Today
    /\ visible_month \in ShownMonths
    /\ lastOp = [op |-> "context", state |-> state, visible_month |-> visible_month]
    /\ resume_state = "None" /\ attempted_daily_journal_ids = {}
    /\ current_daily_journal = <<>> /\ pending_notice_candidates = <<>>
    /\ current_notice_candidate = <<>> /\ obstructions = 0
    /\ remote \in {[dogc_issues |-> p, boe_items |-> <<>>] : p \in SUBSET Dates}
    /\ prevRun = NoPrevRun

NextCalendar ==
    \/ DogcStateNavigateToStartMonth
    \/ DogcStateProcessMonth
    \/ DogcStateCookieConsent

SpecCalendar == InitCalendar /\ [][NextCalendar]_vars

StartMonth == DateMonthIndex(from_date)
EndMonth == DateMonthIndex(to_date)

\* C33: without a detour, a walk that starts in NAVIGATE_TO_START_MONTH at month M
\* enters the drain after M - start clicks back, one step that finds the start
\* month, and one PROCESS_MONTH step for each month start .. end in ascending
\* order, and then every published issue of the window has a row; a month is
\* processed only after the start month was reached; the walk fails in
\* NAVIGATE_TO_START_MONTH exactly on a month older than the start month and in
\* PROCESS_MONTH exactly on a month later than the end month.
C33_CalendarWalk ==
    /\ [](/\ (obstructions = 0 /\ lastOp.state = "NAVIGATE_TO_START_MONTH") =>
              /\ state = "PICK_PENDING_DAILY_JOURNAL" =>
                    /\ walked = MonthsFromTo(StartMonth, EndMonth)
                    /\ steps = (lastOp.visible_month - StartMonth) + 1 + Len(walked)
                    /\ \A d \in remote.dogc_issues :
                          (from_date <= d /\ d <= to_date) =>
                              \E i \in DOMAIN daily_journals :
                                  /\ daily_journals[i].source_id = DogcSource
                                  /\ daily_journals[i].issue_date = d
              /\ state = "NAVIGATE_TO_START_MONTH" =>
                    (walked = <<>> /\ visible_month = lastOp.visible_month - steps)
              /\ (state = "PROCESS_MONTH" /\ status = "running") =>
                    /\ walked = MonthsFromTo(StartMonth, visible_month - 1)
                    /\ visible_month <= EndMonth
          /\ (status = "failed" /\ state = "NAVIGATE_TO_START_MONTH") =>
                visible_month < StartMonth
          /\ (status = "failed" /\ state = "PROCESS_MONTH") => visible_month > EndMonth)
    /\ [][(status = "running" /\ ~DetourStep /\
            \/ state = "NAVIGATE_TO_START_MONTH" /\ visible_month < StartMonth
            \/ state = "PROCESS_MONTH" /\ visible_month > EndMonth) =>
             (status' = "failed" /\ state' = state /\ steps' = steps)]_vars

\* the walk went back one month, processed two months and entered the drain
C33_Witness ==
    /\ obstructions = 0 /\ lastOp.state = "NAVIGATE_TO_START_MONTH"
    /\ state = "PICK_PENDING_DAILY_JOURNAL" /\ Len(walked) = 2
    /\ lastOp.visible_month = StartMonth + 1 /\ steps = 4

\* the walk failed on a month older than the start month
C33_WitnessOlder ==
    /\ status = "failed" /\ state = "NAVIGATE_TO_START_MONTH" /\ visible_month < StartMonth

\* the walk failed on a month later than the end month
C33_WitnessLater ==
    /\ status = "failed" /\ state = "PROCESS_MONTH" /\ visible_month > EndMonth
====
